---- MODULE Spec2Model ----
(***************************************************************************)
(* Orders (transactions) of the bookstore backend:                         *)
(* controllers/transaction.controller.ts createTransaction, racing with    *)
(* itself, with the queries of the same controller and with the book and   *)
(* genre operations of controllers/book.controller.ts and                  *)
(* controllers/genre.controller.ts, over the book, genre and order tables  *)
(* reached through the Prisma client.                                      *)
(*                                                                         *)
(* A handler runs without interruption between two awaits, so one action   *)
(* is the code from one await to the next.  The store runs the statements  *)
(* of an interactive transaction against a private write set that becomes  *)
(* visible at commit and is dropped at rollback.  A writer that the store  *)
(* makes wait for a row lock writes after the holder has committed, so the *)
(* later commit decides the value of the row, as it does here.             *)
(***************************************************************************)
EXTENDS Bags, Integers, Sequences, FiniteSets, TLC

\* ------------------------------------------------------------------ bounds
NumRequests == 2      \* createTransaction requests of one run
MaxLines == 2         \* lines of one request body
MaxStock == 2         \* initial stock of a book is in 1..MaxStock

\* ------------------------------------------------------- the bounded world
Slots == 1..NumRequests
BookIds == {"b1", "b2"}            \* rows of the book table
UnknownId == "b9"                  \* an id with no row
RequestIds == BookIds \cup {UnknownId}
Users == {"u1", "u2"}
\* the user of the request in slot r of a race
SlotUser(r) == IF r % 2 = 1 THEN "u1" ELSE "u2"
NoUser == "none"                   \* req.user?.id is undefined
BookTitle == [b \in BookIds |-> IF b = "b1" THEN "T1" ELSE "T2"]
GenreIds == {"g1", "g2"}           \* rows of the genre table
NoGenre == "none"                  \* a book row without genre
GenreName == [g \in GenreIds |-> IF g = "g1" THEN "Fiction" ELSE "Science"]
BookGenre == [b \in BookIds |-> IF b = "b1" THEN "g1" ELSE "g2"]

\* ------------------------------------------------------------ JS values
\* A JSON/JS value: a number, Infinity with its sign, NaN, a string (s is
\* the sequence of its characters, one-character strings), a boolean (m is
\* <<1>> for true), an array (s is the sequence of its elements), an object
\* (keys are the names of its own properties), undefined or null.  A finite
\* number is a 64-bit float sign * m * 2^e: m is an odd natural number
\* written as its digits of radix 2^15, lowest first; zero has no digits and
\* keeps its sign.
JsValue(k) == [k |-> k, sign |-> 1, m |-> <<>>, e |-> 0, s |-> <<>>, keys |-> {}]
JsInf(sign) == [JsValue("Infinity") EXCEPT !.sign = sign]
JsNaN == JsValue("NaN")
JsStr(s) == [JsValue("string") EXCEPT !.s = s]
JsBool(b) == [JsValue("boolean") EXCEPT !.m = IF b THEN <<1>> ELSE <<>>]
JsArr(elements) == [JsValue("array") EXCEPT !.s = elements]
JsObject(keys) == [JsValue("object") EXCEPT !.keys = keys]
JsUndefined == JsValue("undefined")
JsNull == JsValue("null")
\* the abrupt completion of a conversion: a TypeError is thrown
JsThrow == JsValue("TypeError")

\* ---------------------------------------------- natural numbers of any size
Base == 2^15
\* the digits without the zeros at the high end
Trim(x) ==
    IF \A i \in 1..Len(x) : x[i] = 0 THEN <<>>
    ELSE SubSeq(x, 1, CHOOSE i \in 1..Len(x) : x[i] # 0 /\ \A j \in (i + 1)..Len(x) : x[j] = 0)
\* the digits of a machine integer n >= 0
BigOf(n) == Trim(<<n % Base, (n \div Base) % Base, n \div (Base * Base)>>)
\* the digits of the column sums s, every sum below 2 * Base: a column takes
\* a carry when a column below it overflows and every column between is full
Carried(s) ==
    Trim([i \in 1..Len(s) |->
            (s[i] + (IF \E j \in 1..(i - 1) :
                           s[j] >= Base /\ \A k \in (j + 1)..(i - 1) : s[k] = Base - 1
                     THEN 1 ELSE 0)) % Base])
\* a + b
BigAdd(a, b) ==
    Carried([i \in 1..((IF Len(a) > Len(b) THEN Len(a) ELSE Len(b)) + 1) |->
               (IF i <= Len(a) THEN a[i] ELSE 0) + (IF i <= Len(b) THEN b[i] ELSE 0)])
\* the digits of the column differences d, every difference above -Base: a
\* column gives a borrow when a column below it is negative and every column
\* between is zero
Borrowed(d) ==
    Trim([i \in 1..Len(d) |->
            (d[i] - (IF \E j \in 1..(i - 1) :
                           d[j] < 0 /\ \A k \in (j + 1)..(i - 1) : d[k] = 0
                     THEN 1 ELSE 0)) % Base])
\* a - b, a >= b
BigSub(a, b) ==
    Borrowed([i \in 1..Len(a) |-> a[i] - (IF i <= Len(b) THEN b[i] ELSE 0)])
\* the sum of a sequence of machine integers >= 0
Sum(s) == BagCardinality([i \in {j \in 1..Len(s) : s[j] > 0} |-> s[i]])
\* column k of a * b: the low halves of the products of the column and the
\* high halves of the products of the column below
Column(a, b, k) ==
    Sum([i \in 1..Len(a) |->
           (IF k - i + 1 \in 1..Len(b) THEN (a[i] * b[k - i + 1]) % Base ELSE 0)
             + (IF k - i \in 1..Len(b) THEN (a[i] * b[k - i]) \div Base ELSE 0)])
\* the number of the columns c
Columns(c) ==
    BigAdd([k \in 1..Len(c) |-> c[k] % Base],
           <<0>> \o [k \in 1..Len(c) |-> c[k] \div Base])
\* a * b
BigMul(a, b) ==
    IF a = <<>> \/ b = <<>> THEN <<>>
    ELSE Columns([k \in 1..(Len(a) + Len(b)) |-> Column(a, b, k)])
\* a < b
BigLess(a, b) ==
    \/ Len(a) < Len(b)
    \/ /\ Len(a) = Len(b)
       /\ \E i \in 1..Len(a) : a[i] < b[i] /\ \A j \in (i + 1)..Len(a) : a[j] = b[j]
\* the number of binary digits of a
BitLen(a) ==
    IF a = <<>> THEN 0
    ELSE 15 * (Len(a) - 1)
           + (CHOOSE k \in 1..15 : 2^(k - 1) <= a[Len(a)] /\ a[Len(a)] < 2^k)
\* a * 2^k
ShiftLeft(a, k) ==
    IF a = <<>> THEN <<>>
    ELSE [i \in 1..(k \div 15) |-> 0]
           \o Trim([i \in 1..(Len(a) + 1) |->
                      (IF i <= Len(a) THEN (a[i] * 2^(k % 15)) % Base ELSE 0)
                        + (IF i > 1 THEN (a[i - 1] * 2^(k % 15)) \div Base ELSE 0)])
\* a \div 2^k
ShiftRight(a, k) ==
    IF Len(a) <= k \div 15 THEN <<>>
    ELSE Trim([i \in 1..(Len(a) - (k \div 15)) |->
                (a[i + (k \div 15)] \div 2^(k % 15))
                  + (IF i + (k \div 15) < Len(a)
                     THEN (a[i + (k \div 15) + 1] % 2^(k % 15)) * 2^(15 - (k % 15))
                     ELSE 0)])
\* q = 0, or q * d is no more than r
Fits(d, r, q) == q = 0 \/ ~BigLess(r, BigMul(d, <<q>>))
\* the next digit of the quotient of r by d, the highest digit of d at least
\* Base / 2: the digit guessed from the two highest digits of r is at most 2
\* too large
Guess(d, r) ==
    ((IF Len(r) > Len(d) THEN r[Len(d) + 1] ELSE 0) * Base
       + (IF Len(r) >= Len(d) THEN r[Len(d)] ELSE 0)) \div d[Len(d)]
DivDigit(d, r, most) ==
    IF Fits(d, r, most) THEN most ELSE IF Fits(d, r, most - 1) THEN most - 1 ELSE most - 2
\* one step of the long division by d: the digit is put before the quotient
\* q and taken from the remainder r
DivTake(d, i, q, r, digit) ==
    [i |-> i, q |-> Trim(<<digit>> \o q), r |-> BigSub(r, BigMul(d, BigOf(digit)))]
DivStep(d, i, q, r) ==
    DivTake(d, i, q, r,
            DivDigit(d, r, IF Guess(d, r) < Base - 1 THEN Guess(d, r) ELSE Base - 1))
\* long division of n by d: with digits st.i down to 1 of n left, quotient
\* st.q and remainder st.r so far
RECURSIVE LongDiv(_, _, _)
LongDiv(n, d, st) ==
    IF st.i = 0 THEN st
    ELSE LongDiv(n, d, DivStep(d, st.i - 1, st.q, Trim(<<n[st.i]>> \o st.r)))
\* the shift that brings the highest digit of d to Base / 2 or more
Headroom(d) == 15 * Len(d) - BitLen(d)
\* quotient and remainder of num by den, the highest digit of den at least
\* Base / 2
DivAligned(num, den) ==
    IF Len(num) < Len(den) THEN [i |-> 0, q |-> <<>>, r |-> num]
    ELSE LongDiv(num, den,
                 [i |-> Len(num) - Len(den) + 1, q |-> <<>>,
                  r |-> SubSeq(num, Len(num) - Len(den) + 2, Len(num))])
\* the remainder of the division of the shifted numbers, shifted back
Unshift(res, up) == [q |-> res.q, r |-> ShiftRight(res.r, up)]
\* quotient q and remainder r of n by d, d > 0
BigDiv(n, d) ==
    Unshift(DivAligned(ShiftLeft(n, Headroom(d)), ShiftLeft(d, Headroom(d))), Headroom(d))
\* st.p * st.sq^st.k by squaring
RECURSIVE PowLoop(_)
PowLoop(st) ==
    IF st.k = 0 THEN st.p
    ELSE PowLoop([k |-> st.k \div 2,
                  sq |-> IF st.k > 1 THEN BigMul(st.sq, st.sq) ELSE st.sq,
                  p |-> IF st.k % 2 = 1 THEN BigMul(st.p, st.sq) ELSE st.p])
\* b^k
BigPow(b, k) == PowLoop([k |-> k, sq |-> BigOf(b), p |-> <<1>>])

\* ------------------------------------------------------- 64-bit floats
\* A number is sign * m * 2^e with m odd, or zero of either sign (m empty).
\* the number of zero binary digits at the low end of r > 0
TrailingZeros(r) ==
    CHOOSE z \in 0..(15 * Len(r) - 1) :
        /\ r[(z \div 15) + 1] % 2^((z % 15) + 1) = 2^(z % 15)
        /\ \A j \in 1..(z \div 15) : r[j] = 0
\* the number sign * r * 2^(e + zeros), r with that many zeros at its low end
Odd(sign, r, e, zeros) ==
    [JsValue("number") EXCEPT !.sign = sign, !.m = ShiftRight(r, zeros), !.e = e + zeros]
\* the number sign * r * 2^e of at most 53 binary digits, Infinity beyond
\* the largest float
Exact(sign, r, e) ==
    IF r = <<>> THEN [JsValue("number") EXCEPT !.sign = sign]
    ELSE IF e + BitLen(r) - 1 > 1023 THEN JsInf(sign)
    ELSE Odd(sign, r, e, TrailingZeros(r))
\* the exponent of the last binary digit a float keeps of m * 2^e: 53 digits
\* are kept, fewer below 2^-1022, none below 2^-1074
LastKept(m, e) ==
    IF e + BitLen(m) - 53 > -1074 THEN e + BitLen(m) - 53 ELSE -1074
\* m without its cut >= 1 last binary digits, rounded to nearest, ties to
\* even: kept are the digits that stay, tail those and the first cut one
RoundUp(m, cut, kept, tail) ==
    IF /\ tail # <<>> /\ tail[1] % 2 = 1
       /\ \/ cut > 1 /\ ShiftLeft(tail, cut - 1) # m
          \/ kept # <<>> /\ kept[1] % 2 = 1
    THEN BigAdd(kept, <<1>>) ELSE kept
RoundOff(m, cut) == RoundUp(m, cut, ShiftRight(m, cut), ShiftRight(m, cut - 1))
\* the float nearest to sign * m * 2^e, ties to the even one
RoundAt(sign, m, e, low) ==
    IF low > e THEN Exact(sign, RoundOff(m, low - e), low) ELSE Exact(sign, m, e)
JsFinite(sign, m, e) == RoundAt(sign, m, e, LastKept(m, e))
\* the number of a machine integer
JsNum(n) == Exact(IF n < 0 THEN -1 ELSE 1, BigOf(IF n < 0 THEN -n ELSE n), 0)
\* +0 or -0
IsZero(v) == v.k = "number" /\ v.m = <<>>
\* -v
JsNeg(v) == [v EXCEPT !.sign = -v.sign]

\* sa * ma * 2^e + sb * mb * 2^e; the sum of a number and its negative is +0
AddAligned(sa, ma, sb, mb, e) ==
    JsFinite(IF sa = sb THEN sa ELSE IF ma = mb THEN 1 ELSE IF BigLess(mb, ma) THEN sa ELSE sb,
             IF sa = sb THEN BigAdd(ma, mb)
             ELSE IF BigLess(mb, ma) THEN BigSub(ma, mb) ELSE BigSub(mb, ma),
             e)
\* a + b of two finite numbers, e the lesser of their exponents
AddAt(a, b, e) == AddAligned(a.sign, ShiftLeft(a.m, a.e - e), b.sign, ShiftLeft(b.m, b.e - e), e)
\* a + b of two numbers
JsAdd(a, b) ==
    CASE a.k = "NaN" \/ b.k = "NaN" -> JsNaN
      [] a.k = "Infinity" /\ b.k = "Infinity" -> IF a.sign = b.sign THEN a ELSE JsNaN
      [] a.k = "Infinity" -> a
      [] b.k = "Infinity" -> b
      [] OTHER -> AddAt(a, b, IF a.e < b.e THEN a.e ELSE b.e)

\* a * b of two numbers
JsMul(a, b) ==
    CASE a.k = "NaN" \/ b.k = "NaN" -> JsNaN
      [] a.k = "Infinity" \/ b.k = "Infinity" ->
            IF IsZero(a) \/ IsZero(b) THEN JsNaN ELSE JsInf(a.sign * b.sign)
      [] OTHER -> JsFinite(a.sign * b.sign, BigMul(a.m, b.m), a.e + b.e)

\* the float nearest to sign * (qr.q + f) * 2^(e + 1), f a fraction that
\* is 0 when the remainder qr.r is: one more binary digit says whether
\* anything is left
Sticky(sign, qr, e) ==
    JsFinite(sign, BigAdd(ShiftLeft(qr.q, 1), IF qr.r = <<>> THEN <<>> ELSE <<1>>), e)
QuotBy(sign, n, d, e, up) == Sticky(sign, BigDiv(ShiftLeft(n, up), d), e - up - 1)
\* the float nearest to sign * (n / d) * 2^e, d > 0: 56 or more binary
\* digits of the quotient
JsQuot(sign, n, d, e) ==
    QuotBy(sign, n, d, e,
           IF 56 + BitLen(d) - BitLen(n) > 0 THEN 56 + BitLen(d) - BitLen(n) ELSE 0)

\* a / b of two numbers
JsDiv(a, b) ==
    CASE a.k = "NaN" \/ b.k = "NaN" -> JsNaN
      [] a.k = "Infinity" -> IF b.k = "Infinity" THEN JsNaN ELSE JsInf(a.sign * b.sign)
      [] b.k = "Infinity" -> [JsValue("number") EXCEPT !.sign = a.sign * b.sign]
      [] IsZero(b) -> IF IsZero(a) THEN JsNaN ELSE JsInf(a.sign * b.sign)
      [] OTHER -> JsQuot(a.sign * b.sign, a.m, b.m, a.e - b.e)
\* the float of the literal n/d of two machine integers
JsRat(n, d) == JsDiv(JsNum(n), JsNum(d))

\* v <= 0 (false for NaN)
LeqZero(v) == IsZero(v) \/ (v.k \in {"number", "Infinity"} /\ v.sign = -1)
\* v < 0 (false for NaN)
LtZero(v) == v.k \in {"number", "Infinity"} /\ v.sign = -1 /\ ~IsZero(v)
\* a < b of two numbers (false when one is NaN): a - b is below zero
JsLess(a, b) == LtZero(JsAdd(a, JsNeg(b)))
\* Number.isInteger(v)
NumberIsInteger(v) == v.k = "number" /\ (v.m = <<>> \/ v.e >= 0)
\* isNaN(v), v a number
IsNaN(v) == v.k = "NaN"
\* the value fits the 32-bit Int column of the store
FitsInt(v) == NumberIsInteger(v) /\ BitLen(v.m) + v.e <= 31
\* the machine integer of digits x below 2^31
Small(x) ==
    (IF Len(x) >= 1 THEN x[1] ELSE 0)
      + (IF Len(x) >= 2 THEN x[2] * Base ELSE 0)
      + (IF Len(x) >= 3 THEN x[3] * Base * Base ELSE 0)
\* the machine integer of a number that fits the Int column
IntOf(v) == v.sign * Small(ShiftLeft(v.m, v.e))

\* ------------------------------------------------------ string to number
DigitChars == {"0", "1", "2", "3", "4", "5", "6", "7", "8", "9"}
\* the value of a digit of a literal of radix up to 16
DigitVal(c) ==
    CASE c = "0" -> 0 [] c = "1" -> 1 [] c = "2" -> 2 [] c = "3" -> 3
      [] c = "4" -> 4 [] c = "5" -> 5 [] c = "6" -> 6 [] c = "7" -> 7
      [] c = "8" -> 8 [] c = "9" -> 9
      [] c \in {"a", "A"} -> 10 [] c \in {"b", "B"} -> 11
      [] c \in {"c", "C"} -> 12 [] c \in {"d", "D"} -> 13
      [] c \in {"e", "E"} -> 14 [] c \in {"f", "F"} -> 15
      [] OTHER -> 16

IsDigits(s) == Len(s) >= 1 /\ \A i \in 1..Len(s) : s[i] \in DigitChars

\* the natural number of the digits s of the radix: up to 7 digits at once,
\* more by halves
RECURSIVE RadixVal(_, _)
RadixVal(radix, s) ==
    IF Len(s) <= 7
    THEN BigOf(Sum([i \in 1..Len(s) |-> DigitVal(s[i]) * radix^(Len(s) - i)]))
    ELSE LET h == Len(s) \div 2 IN
         BigAdd(BigMul(RadixVal(radix, SubSeq(s, 1, Len(s) - h)), BigPow(radix, h)),
                RadixVal(radix, SubSeq(s, Len(s) - h + 1, Len(s))))

\* position of the first character of s that is in the set, 0 when there
\* is none
FirstOf(s, chars) ==
    IF \E i \in 1..Len(s) : s[i] \in chars
    THEN CHOOSE i \in 1..Len(s) : s[i] \in chars /\ \A j \in 1..(i - 1) : s[j] \notin chars
    ELSE 0

\* the digits without their leading zeros
RECURSIVE StripZeros(_)
StripZeros(s) == IF s # <<>> /\ s[1] = "0" THEN StripZeros(Tail(s)) ELSE s

\* the float nearest to n * 10^scale
ScaledVal(n, scale) ==
    IF scale >= 0 THEN JsFinite(1, BigMul(n, BigPow(10, scale)), 0)
    ELSE JsQuot(1, n, BigPow(10, -scale), 0)
\* the float nearest to sig * 10^scale, sig digits without leading zeros; a
\* value of 10^309 or more is Infinity, one below 10^-324 is 0
ScaledSig(sig, scale) ==
    IF sig = <<>> \/ Len(sig) + scale < -323 THEN JsValue("number")
    ELSE IF Len(sig) + scale > 309 THEN JsInf(1)
    ELSE ScaledVal(RadixVal(10, sig), scale)
\* the float nearest to digits * 10^scale
Scaled(digits, scale) == ScaledSig(StripZeros(digits), scale)

\* ExponentPart without its e: SignedInteger
IsSignedInteger(s) ==
    IF s # <<>> /\ s[1] \in {"+", "-"} THEN IsDigits(Tail(s)) ELSE IsDigits(s)
\* the value of digits without leading zeros; one of more than 6 digits
\* counts as 10^6, which is beyond the range of a float with any digits the
\* body of a request can hold
ExponentVal(digits) ==
    IF Len(digits) > 6 THEN 1000000
    ELSE Sum([i \in 1..Len(digits) |-> DigitVal(digits[i]) * 10^(Len(digits) - i)])
\* the value of a SignedInteger
SignedIntegerVal(s) ==
    (IF s[1] = "-" THEN -1 ELSE 1)
       * ExponentVal(StripZeros(IF s[1] \in {"+", "-"} THEN Tail(s) ELSE s))

\* the number of the digits ip before the dot, fp after it and the
\* exponent, p the position of the dot in the mantissa, 0 for none
DecimalParts(ip, fp, p, exponent) ==
    IF /\ IF p = 0 THEN IsDigits(ip)
          ELSE \/ IsDigits(ip) /\ (fp = <<>> \/ IsDigits(fp))
               \/ ip = <<>> /\ IsDigits(fp)
       /\ IsSignedInteger(exponent)
    THEN Scaled(ip \o fp, SignedIntegerVal(exponent) - Len(fp))
    ELSE JsNaN
DecimalAt(mantissa, p, exponent) ==
    DecimalParts(IF p = 0 THEN mantissa ELSE SubSeq(mantissa, 1, p - 1),
                 IF p = 0 THEN <<>> ELSE SubSeq(mantissa, p + 1, Len(mantissa)),
                 p, exponent)
\* the number of a mantissa and an exponent
Decimal(mantissa, exponent) == DecimalAt(mantissa, FirstOf(mantissa, {"."}), exponent)
\* the number of s, e the position of its exponent indicator, 0 for none: a
\* literal without exponent has the exponent 0
ExponentAt(s, e) ==
    Decimal(IF e = 0 THEN s ELSE SubSeq(s, 1, e - 1),
            IF e = 0 THEN <<"0">> ELSE SubSeq(s, e + 1, Len(s)))
\* StrUnsignedDecimalLiteral: Infinity, digits . digits(opt) exponent(opt),
\* . digits exponent(opt), digits exponent(opt)
UnsignedToNumber(s) ==
    IF s = <<"I", "n", "f", "i", "n", "i", "t", "y">> THEN JsInf(1)
    ELSE ExponentAt(s, FirstOf(s, {"e", "E"}))

\* NonDecimalIntegerLiteral: 0x, 0o or 0b and digits of the radix
RadixOf(s) ==
    IF Len(s) >= 2 /\ s[1] = "0"
    THEN CASE s[2] \in {"x", "X"} -> 16
           [] s[2] \in {"o", "O"} -> 8
           [] s[2] \in {"b", "B"} -> 2
           [] OTHER -> 0
    ELSE 0
\* the number of the digits of a literal of the radix
RadixLiteral(radix, digits) ==
    IF digits # <<>> /\ \A i \in 1..Len(digits) : DigitVal(digits[i]) < radix
    THEN JsFinite(1, RadixVal(radix, digits), 0)
    ELSE JsNaN


\* StrWhiteSpaceChar: TAB, VT, FF, SP, NBSP, ZWNBSP, the space separators
\* and the line terminators LF, CR, LS and PS.  A character outside ASCII
\* is written as its escape \uXXXX, which is one character of a string
\* like any other, so that a character outside this set is no white space;
\* the second line holds U+000B itself, then U+00A0, U+FEFF and U+1680
WhiteSpaceChars ==
    {" ", "\t", "\n", "\r", "\f",
     "", "\\u00a0", "\\ufeff", "\\u1680",
     "\\u2000", "\\u2001", "\\u2002", "\\u2003", "\\u2004", "\\u2005", "\\u2006",
     "\\u2007", "\\u2008", "\\u2009", "\\u200a", "\\u202f", "\\u205f", "\\u3000",
     "\\u2028", "\\u2029"}
RECURSIVE TrimStart(_)
TrimStart(s) ==
    IF s # <<>> /\ s[1] \in WhiteSpaceChars THEN TrimStart(Tail(s)) ELSE s
RECURSIVE TrimEnd(_)
TrimEnd(s) ==
    IF s # <<>> /\ s[Len(s)] \in WhiteSpaceChars
    THEN TrimEnd(SubSeq(s, 1, Len(s) - 1)) ELSE s

\* the number u of a literal with the sign before it
Signed(minus, u) == IF minus /\ u.k # "NaN" THEN JsNeg(u) ELSE u
\* StringNumericLiteral without white space around it: empty (0), a literal
\* of radix 16, 8 or 2, or a decimal literal with an optional sign; anything
\* else is NaN
StrNumericLiteral(s) ==
    IF s = <<>> THEN JsValue("number")
    ELSE IF RadixOf(s) # 0 THEN RadixLiteral(RadixOf(s), SubSeq(s, 3, Len(s)))
    ELSE Signed(s[1] = "-", UnsignedToNumber(IF s[1] \in {"+", "-"} THEN Tail(s) ELSE s))
\* StringToNumber: the number of the string without the white space around it
StringToNumber(str) == StrNumericLiteral(TrimEnd(TrimStart(str)))


\* the conversion of an object to a primitive throws a TypeError: a parsed
\* JSON object with a property toString of its own has no function to call
\* (its toString is no function, valueOf is none or returns the object); an
\* array is joined from the strings of its elements, so it throws when one
\* of them does
RECURSIVE Throws(_)
Throws(v) ==
    CASE v.k = "object" -> "toString" \in v.keys
      [] v.k = "array" -> \E i \in 1..Len(v.s) : Throws(v.s[i])
      [] OTHER -> FALSE

\* Number(v): ToNumber; an array is converted through the string of its
\* elements joined by commas, an object through "[object Object]"; the
\* string of a number converts back to the number, but for -0, whose string
\* is "0"
RECURSIVE Number(_)
Number(v) ==
    CASE v.k \in {"number", "Infinity", "NaN", "TypeError"} -> v
      [] v.k = "string" -> StringToNumber(v.s)
      [] v.k = "boolean" -> [v EXCEPT !.k = "number"]
      [] v.k = "null" -> JsValue("number")
      [] v.k \in {"array", "object"} /\ Throws(v) -> JsThrow
      [] v.k = "array" /\ v.s = <<>> -> JsValue("number")
      [] v.k = "array" /\ Len(v.s) = 1 ->
            CASE v.s[1].k \in {"null", "undefined"} \/ IsZero(v.s[1]) -> JsValue("number")
              [] v.s[1].k \in {"boolean", "object"} -> JsNaN
              [] OTHER -> Number(v.s[1])
      [] OTHER -> JsNaN

\* the prices of the books of the table, 0.1 and 0.7: the sum of two floats
\* may be another float than the nearest to the sum of the decimals
BookPrice == [b \in BookIds |-> IF b = "b1" THEN JsRat(1, 10) ELSE JsRat(7, 10)]


\* ------------------------------------------------------- request bodies
\* quantity values a client may send
RawQuantities ==
    {JsNum(1), JsNum(2), JsNum(0), JsNum(-1), JsRat(3, 2),
     JsStr(<<"a", "b", "c">>), JsStr(<<"2">>), JsStr(<<" ", "+", "1", "e", "0", "\\u00a0">>),
     JsObject({"toString"})}
\* quantity values of a well-formed order
OrderQuantities == {JsNum(1), JsNum(2)}

\* an element of items: an object with its book_id and quantity, or null
Line(book_id, quantity) == [k |-> "object", book_id |-> book_id, quantity |-> quantity]
NullLine == [k |-> "null", book_id |-> "", quantity |-> JsUndefined]
LinesOf(Q) == {Line(b, q) : b \in RequestIds, q \in Q}
ArraysOf(lines) == UNION {[1..n -> lines] : n \in 0..MaxLines}
\* req.body.items: an array of lines, or something that is not one
ItemsArray(a) == [k |-> "array", v |-> a]
ItemsMissing == [k |-> "undefined", v |-> <<>>]
ItemsNull == [k |-> "null", v |-> <<>>]
ItemsObject == [k |-> "object", v |-> <<>>]
AnyBodies ==
    {ItemsArray(a) : a \in ArraysOf(LinesOf(RawQuantities) \cup {NullLine})}
       \cup {ItemsMissing, ItemsNull, ItemsObject}
OrderBodies == {ItemsArray(<<l>>) : l \in LinesOf(OrderQuantities)}
\* arrays of lines with good quantities
BasketBodies == {ItemsArray(a) : a \in ArraysOf(LinesOf(OrderQuantities))}
\* one line that asks one copy of a book of the table
SingleBodies == {ItemsArray(<<Line(b, JsNum(1))>>) : b \in BookIds}

\* ------------------------------------------------------------ responses
NoData == [book |-> "", available |-> 0, requested |-> JsNum(0),
           transaction_id |-> 0, total_quantity |-> 0, total_price |-> JsNum(0)]
Response(status, message, data) == [status |-> status, message |-> message, data |-> data]
NoResponse == Response(0, "", NoData)
\* the handler throws a TypeError outside any try: it sends nothing and the
\* promise it returned rejects
Rejection == Response(0, "TypeError", NoData)

MsgNotAuthenticated == "User not authenticated."
MsgItemsRequired == "Items are required"
MsgBadQuantity == "Quantity for book ${item.book_id} must be a positive integer."
MsgNotFound == "Some books not found or are inactive."
MsgInsufficient == "Stock for '${title}' is insufficient. Available: ${stockQuantity}, Requested: ${quantity}."
MsgValidationError == "Server error during validation."
MsgCreated == "Transaction created successfully and stock updated."
MsgTxFailed == "Transaction failed. Stock remains unchanged."

\* ---------------------------------------------------------------- state
VARIABLES
    books,     \* the book table: id -> row
    orders,    \* the order table with its order items, in commit order
    req,       \* the createTransaction handlers: slot -> position and locals
    stock0,    \* history: the stock of every book before the first request
    clock,     \* the time of the store: the number of orders inserted so far
    genres,    \* the genre table: id -> row
    gen,       \* the genre handlers: slot -> position and locals
    qres,      \* the last response of getAllTransactions or getTransactionDetail
    stats,     \* the getTransactionStatistics handler: position and locals
    closed     \* the createTransaction slots whose caller has closed the connection

vars == <<books, orders, req, stock0, clock, genres, gen, qres, stats, closed>>

NoTx == [begun |-> FALSE, order |-> <<>>, books |-> <<>>]

\* a handler before its request has arrived, and the locals of a finished one
IdleReq ==
    [pc |-> "idle", userId |-> NoUser, body |-> ItemsMissing, items |-> <<>>,
     stockUpdates |-> <<>>, totalQuantity |-> 0, totalPrice |-> JsNum(0),
     tx |-> NoTx, res |-> NoResponse, storageCalls |-> 0]

\* a genre handler before its request has arrived
GenreSlots == {1, 2}
IdleGenre == [pc |-> "idle", op |-> "", id |-> NoGenre, name |-> "", status |-> 0]

\* no response of a transaction query yet
NoOrderId == 0
NoQuery == [op |-> "", userId |-> NoUser, id |-> NoOrderId,
            status |-> 0, message |-> "", data |-> <<>>]

\* the statistics handler before its request has arrived; a genre field is
\* the sequence of the one name it holds, empty for null
NoStatistics == [total_transactions |-> 0, average_transaction_amount |-> JsNum(0),
                 most_book_sales_genre |-> <<>>, fewest_book_sales_genre |-> <<>>]
IdleStats == [pc |-> "idle", totalTransactions |-> 0, allOrders |-> <<>>,
              status |-> 0, data |-> NoStatistics]

Init ==
    /\ stock0 \in [BookIds -> 1..MaxStock]
    /\ books = [b \in BookIds |->
                 [id |-> b, title |-> BookTitle[b], price |-> BookPrice[b],
                  stockQuantity |-> stock0[b], genreId |-> BookGenre[b],
                  deletedAt |-> FALSE]]
    /\ orders = <<>>
    /\ req = [r \in Slots |-> IdleReq]
    /\ clock = 0
    /\ genres = [g \in GenreIds |->
                  [id |-> g, name |-> GenreName[g], deletedAt |-> FALSE]]
    /\ gen = [a \in GenreSlots |-> IdleGenre]
    /\ qres = NoQuery
    /\ stats = IdleStats
    /\ closed = {}

\* ------------------------------------------- createTransaction, lines 15-79
\* !items
Falsy(body) == body.k \in {"undefined", "null"}
\* Array.isArray(items)
IsArray(body) == body.k = "array"

\* mutant: line 33 without numQuantity <= 0
BadQuantity_NoSignTest(numQuantity) ==
    ~NumberIsInteger(numQuantity) \/ IsNaN(numQuantity)

\* the test of line 33 on numQuantity = Number(item.quantity)
BadQuantity(numQuantity) ==
    LeqZero(numQuantity) \/ ~NumberIsInteger(numQuantity) \/ IsNaN(numQuantity)

\* line 32 throws: item is null, or the conversion of item.quantity throws
LineThrows(item) == item.k = "null" \/ Throws(item.quantity)

\* the least of a set of indices, 0 for none
FirstIn(stops) == IF stops = {} THEN 0 ELSE CHOOSE i \in stops : \A j \in stops : i <= j

\* index of the first line at which the loop of lines 31-40 stops, by the
\* throw of line 32 or by the 400 of line 33, 0 when it runs through
FirstBadLine(a) ==
    FirstIn({i \in 1..Len(a) : LineThrows(a[i]) \/ BadQuantity(Number(a[i].quantity))})

\* items after the loop of lines 31-40 has run through: item.quantity = numQuantity
CoerceItems(a) ==
    [i \in 1..Len(a) |-> Line(a[i].book_id, Number(a[i].quantity))]

\* lines 31-40: what the loop does at the line where it stops, the throw of
\* line 32 or the 400 of lines 34-37
LoopCheck(a, stop) ==
    IF stop = 0 THEN NoResponse
    ELSE IF LineThrows(a[stop]) THEN Rejection
    ELSE Response(400, MsgBadQuantity, [NoData EXCEPT !.book = a[stop].book_id])

\* lines 18-40: the response of the checks made before any storage call,
\* NoResponse when they all pass, Rejection when line 32 throws
InputCheck(userId, body) ==
    IF userId = NoUser
    THEN Response(401, MsgNotAuthenticated, NoData)
    ELSE IF Falsy(body) \/ ~IsArray(body) \/ Len(body.v) = 0
    THEN Response(400, MsgItemsRequired, NoData)
    ELSE LoopCheck(body.v, FirstBadLine(body.v))

\* lines 45-48: prisma.book.findMany({where: {id: {in: bookIds}, deletedAt: null}})
FindMany(tbl, bookIds) ==
    {b \in DOMAIN tbl :
        /\ \E i \in 1..Len(bookIds) : bookIds[i] = b
        /\ ~tbl[b].deletedAt}

\* Map.prototype.set on a map kept as the sequence of its entries
MapSet(m, key, val) ==
    IF \E i \in 1..Len(m) : m[i][1] = key
    THEN [i \in 1..Len(m) |-> IF m[i][1] = key THEN <<key, val>> ELSE m[i]]
    ELSE Append(m, <<key, val>>)

\* mutant: line 63 off by one
InsufficientStock_OffByOne(book, item) ==
    JsLess(JsNum(book.stockQuantity + 1), item.quantity)

\* line 63: book.stockQuantity < item.quantity
InsufficientStock(book, item) == JsLess(JsNum(book.stockQuantity), item.quantity)

\* mutant: lines 57-73 with line 71 adding the unit price, not the price of
\* the line
RECURSIVE StockLoop_UnitPriceOnly(_, _, _, _)
StockLoop_UnitPriceOnly(tbl, items, i, acc) ==
    IF i > Len(items) THEN acc
    ELSE LET item == items[i]
             book == tbl[item.book_id]
         IN IF InsufficientStock(book, item)
            THEN [acc EXCEPT !.res =
                    Response(409, MsgInsufficient,
                             [NoData EXCEPT !.book = book.title,
                                            !.available = book.stockQuantity,
                                            !.requested = item.quantity])]
            ELSE StockLoop_UnitPriceOnly(tbl, items, i + 1,
                    [acc EXCEPT
                       !.totalQuantity = @ + IntOf(item.quantity),
                       !.totalPrice = JsAdd(@, book.price),
                       !.stockUpdates = MapSet(@, book.id,
                                               book.stockQuantity - IntOf(item.quantity))])

\* lines 57-73 from line i on: the 409 of the first line short of stock, or
\* the totals and the stock values to write; a quantity that is not above
\* the stock is an integer of the Int column
RECURSIVE StockLoop(_, _, _, _)
StockLoop(tbl, items, i, acc) ==
    IF i > Len(items) THEN acc
    ELSE LET item == items[i]
             book == tbl[item.book_id]
         IN IF InsufficientStock(book, item)
            THEN [acc EXCEPT !.res =
                    Response(409, MsgInsufficient,
                             [NoData EXCEPT !.book = book.title,
                                            !.available = book.stockQuantity,
                                            !.requested = item.quantity])]
            ELSE StockLoop(tbl, items, i + 1,
                    [acc EXCEPT
                       !.totalQuantity = @ + IntOf(item.quantity),
                       !.totalPrice = JsAdd(@, JsMul(book.price, item.quantity)),
                       !.stockUpdates = MapSet(@, book.id,
                                               book.stockQuantity - IntOf(item.quantity))])

\* lines 45-73 on the snapshot tbl of the book table
ValidateStock(tbl, items) ==
    LET bookIds == [i \in 1..Len(items) |-> items[i].book_id]
        found == FindMany(tbl, bookIds)
        start == [res |-> NoResponse, totalQuantity |-> 0, totalPrice |-> JsNum(0),
                  stockUpdates |-> <<>>]
    IN IF Cardinality(found) # Len(bookIds)
       THEN [start EXCEPT !.res = Response(404, MsgNotFound, NoData)]
       ELSE StockLoop(tbl, items, 1, start)

\* the handler throws at line 32: no response, no storage call
Reject(userId, body) ==
    [IdleReq EXCEPT !.pc = "rejected", !.userId = userId, !.body = body]

\* the handler answers: its locals are gone, the request and the response stay
Answer(userId, body, res, calls) ==
    [IdleReq EXCEPT !.pc = "done", !.userId = userId, !.body = body,
                    !.res = res, !.storageCalls = calls]


\* requests take the slots in arrival order
ArrivesNext(r) == IF r = 1 THEN TRUE ELSE req[r - 1].pc # "idle"

\* createTransaction from its entry to the opening of the transaction
\* (lines 15-84): the checks on the request, the read of the books, the
\* checks on the books read.  A throw of line 32 ends the handler without
\* a response: the loop of lines 31-40 is in no try
Validate(r, users, bodies) ==
    /\ req[r].pc = "idle"
    /\ ArrivesNext(r)
    /\ \E userId \in users, body \in bodies :
          LET early == InputCheck(userId, body) IN
          IF early = Rejection
          THEN req' = [req EXCEPT ![r] = Reject(userId, body)]
          ELSE IF early # NoResponse
          THEN req' = [req EXCEPT ![r] = Answer(userId, body, early, 0)]
          ELSE LET items == CoerceItems(body.v)
                   v == ValidateStock(books, items)
               IN IF v.res # NoResponse
                  THEN req' = [req EXCEPT ![r] = Answer(userId, body, v.res, 1)]
                  ELSE req' = [req EXCEPT ![r] =
                                 [pc |-> "tx", userId |-> userId, body |-> body,
                                  items |-> items,
                                  stockUpdates |-> v.stockUpdates,
                                  totalQuantity |-> v.totalQuantity,
                                  totalPrice |-> v.totalPrice,
                                  tx |-> [NoTx EXCEPT !.begun = TRUE],
                                  res |-> NoResponse, storageCalls |-> 2]]
    /\ UNCHANGED <<books, orders, stock0, clock, genres, gen, qres, stats, closed>>

\* lines 46-48 and 75-78: the read of the books throws
ValidateFault(r, users, bodies) ==
    /\ req[r].pc = "idle"
    /\ ArrivesNext(r)
    /\ \E userId \in users, body \in bodies :
          /\ InputCheck(userId, body) = NoResponse
          /\ req' = [req EXCEPT ![r] =
                       Answer(userId, body, Response(500, MsgValidationError, NoData), 1)]
    /\ UNCHANGED <<books, orders, stock0, clock, genres, gen, qres, stats, closed>>

\* mutant: lines 87-97 with the order items of the first line only
TxOrderCreate_FirstLineOnly(r) ==
    /\ req[r].pc = "tx"
    /\ req[r].tx.order = <<>>
    /\ req' = [req EXCEPT ![r].tx.order =
                 <<[id |-> r, userId |-> req[r].userId, createdAt |-> clock + 1,
                    orderItems |-> [i \in 1..1 |->
                                      [bookId |-> req[r].items[i].book_id,
                                       quantity |-> req[r].items[i].quantity]]]>>]
    /\ clock' = clock + 1
    /\ UNCHANGED <<books, orders, stock0, genres, gen, qres, stats, closed>>

\* lines 87-97: tx.order.create with its nested order items, into the
\* write set of the transaction
TxOrderCreate(r) ==
    /\ req[r].pc = "tx"
    /\ req[r].tx.order = <<>>
    /\ req' = [req EXCEPT ![r].tx.order =
                 <<[id |-> r, userId |-> req[r].userId, createdAt |-> clock + 1,
                    orderItems |-> [i \in 1..Len(req[r].items) |->
                                      [bookId |-> req[r].items[i].book_id,
                                       quantity |-> req[r].items[i].quantity]]]>>]
    /\ clock' = clock + 1
    /\ UNCHANGED <<books, orders, stock0, genres, gen, qres, stats, closed>>

\* lines 100-107: the next tx.book.update({where: {id}, data: {stockQuantity: newStock}}),
\* into the write set of the transaction
TxBookUpdate(r) ==
    /\ req[r].pc = "tx"
    /\ req[r].tx.order # <<>>
    /\ Len(req[r].tx.books) < Len(req[r].stockUpdates)
    /\ LET entry == req[r].stockUpdates[Len(req[r].tx.books) + 1] IN
          /\ entry[1] \in DOMAIN books
          /\ req' = [req EXCEPT ![r].tx.books = Append(@, entry)]
    /\ UNCHANGED <<books, orders, stock0, clock, genres, gen, qres, stats, closed>>

\* the book table with the writes of a write set applied in order
RECURSIVE ApplyWrites(_, _)
ApplyWrites(tbl, writes) ==
    IF writes = <<>> THEN tbl
    ELSE ApplyWrites([tbl EXCEPT ![writes[1][1]].stockQuantity = writes[1][2]],
                     Tail(writes))

\* mutant: a commit that leaves only the new order in the order table
TxCommit_ReplacesOrders(r) ==
    /\ req[r].pc = "tx"
    /\ req[r].tx.order # <<>>
    /\ Len(req[r].tx.books) = Len(req[r].stockUpdates)
    /\ orders' = <<req[r].tx.order[1]>>
    /\ books' = ApplyWrites(books, req[r].tx.books)
    /\ req' = [req EXCEPT ![r] =
                 Answer(req[r].userId, req[r].body,
                        Response(201, MsgCreated,
                                 [NoData EXCEPT
                                    !.transaction_id = req[r].tx.order[1].id,
                                    !.total_quantity = req[r].totalQuantity,
                                    !.total_price = req[r].totalPrice]),
                        req[r].storageCalls)]
    /\ UNCHANGED <<stock0, clock, genres, gen, qres, stats, closed>>

\* lines 109-120: the callback returns, the transaction commits, 201
TxCommit(r) ==
    /\ req[r].pc = "tx"
    /\ req[r].tx.order # <<>>
    /\ Len(req[r].tx.books) = Len(req[r].stockUpdates)
    /\ orders' = Append(orders, req[r].tx.order[1])
    /\ books' = ApplyWrites(books, req[r].tx.books)
    /\ req' = [req EXCEPT ![r] =
                 Answer(req[r].userId, req[r].body,
                        Response(201, MsgCreated,
                                 [NoData EXCEPT
                                    !.transaction_id = req[r].tx.order[1].id,
                                    !.total_quantity = req[r].totalQuantity,
                                    !.total_price = req[r].totalPrice]),
                        req[r].storageCalls)]
    /\ UNCHANGED <<stock0, clock, genres, gen, qres, stats, closed>>

\* mutant: lines 122-128 with the statements run outside a transaction, so
\* that what was written before the throw stays
TxFail_KeepsWrites(r) ==
    /\ req[r].pc = "tx"
    /\ req' = [req EXCEPT ![r] =
                 Answer(req[r].userId, req[r].body,
                        Response(500, MsgTxFailed, NoData), req[r].storageCalls)]
    /\ orders' = orders \o req[r].tx.order
    /\ books' = ApplyWrites(books, req[r].tx.books)
    /\ UNCHANGED <<stock0, clock, genres, gen, qres, stats, closed>>

\* lines 122-128: a statement of the transaction throws, the transaction
\* rolls back, 500
TxFail(r) ==
    /\ req[r].pc = "tx"
    /\ req' = [req EXCEPT ![r] =
                 Answer(req[r].userId, req[r].body,
                        Response(500, MsgTxFailed, NoData), req[r].storageCalls)]
    /\ UNCHANGED <<books, orders, stock0, clock, genres, gen, qres, stats, closed>>

\* the caller of a request whose transaction is open closes the connection;
\* the handler has no listener for it and runs on
Disconnect(r) ==
    /\ req[r].pc = "tx"
    /\ r \notin closed
    /\ closed' = closed \cup {r}
    /\ UNCHANGED <<books, orders, req, stock0, clock, genres, gen, qres, stats>>

\* ----------------------------------------------------------- deleteBook
\* mutant: a soft delete that also clears the stock of the book
DeleteBook_ClearsStock(b) ==
    /\ books' = IF ~books[b].deletedAt
                THEN [books EXCEPT ![b].deletedAt = TRUE, ![b].stockQuantity = 0]
                ELSE books
    /\ UNCHANGED <<orders, req, stock0, clock, genres, gen, qres, stats, closed>>

\* book.controller.ts lines 235-252: soft delete of an active book, 404 and no
\* change for a book that is already deleted
DeleteBook(b) ==
    /\ books' = IF ~books[b].deletedAt
                THEN [books EXCEPT ![b].deletedAt = TRUE]
                ELSE books
    /\ UNCHANGED <<orders, req, stock0, clock, genres, gen, qres, stats, closed>>

\* ------------------------------------------------- createBook, updateBook
NewBookIds == {"b3"}               \* the ids the store gives to created books
NewTitle == "T3"

\* !v
JsFalsy(v) ==
    \/ v.k \in {"undefined", "null", "NaN"}
    \/ v.k \in {"number", "boolean"} /\ v.m = <<>>
    \/ v.k = "string" /\ v.s = <<>>

\* the bodies of createBook: title, price, stock_quantity and genre_id, the
\* other required fields present and good
BookBodies ==
    [title : {"", "T1", NewTitle},
     price : {JsNum(7), JsRat(15, 2), JsNum(-1)},
     stock_quantity : {JsNum(1), JsNum(0), JsRat(3, 2)},
     genre_id : {NoGenre, "g1"}]

\* book.controller.ts lines 23-54: the status of the checks on the body, 0
\* when they all pass; the conversions of lines 28-30 are made before the
\* checks, and one that throws is caught with the 500 of the handler
CreateBookCheck(body) ==
    IF body.title = "" \/ JsFalsy(body.price) \/ JsFalsy(body.stock_quantity)
          \/ body.genre_id = NoGenre
    THEN 400
    ELSE IF Throws(body.price) \/ Throws(body.stock_quantity)
    THEN 500
    ELSE IF LtZero(Number(body.price)) \/ IsNaN(Number(body.price))
    THEN 400
    ELSE IF LtZero(Number(body.stock_quantity))
               \/ ~NumberIsInteger(Number(body.stock_quantity))
               \/ IsNaN(Number(body.stock_quantity))
    THEN 400
    ELSE 0

\* book.controller.ts lines 6-94: createBook; prisma.book.create refuses a
\* title that a row has (P2002, 400), a genre id without row and a stock
\* beyond the Int column (500)
CreateBook(body) ==
    /\ \E id \in NewBookIds \ DOMAIN books :
          books' =
             IF /\ CreateBookCheck(body) = 0
                /\ FitsInt(Number(body.stock_quantity))
                /\ \A b \in DOMAIN books : books[b].title # body.title
                /\ body.genre_id \in DOMAIN genres
             THEN [b \in DOMAIN books \cup {id} |->
                     IF b = id
                     THEN [id |-> id, title |-> body.title,
                           price |-> Number(body.price),
                           stockQuantity |-> IntOf(Number(body.stock_quantity)),
                           genreId |-> body.genre_id, deletedAt |-> FALSE]
                     ELSE books[b]]
             ELSE books
    /\ UNCHANGED <<orders, req, stock0, clock, genres, gen, qres, stats, closed>>

\* the bodies of updateBook: price, stock_quantity and genre_id, each of
\* them sent or not (undefined, NoGenre), the other fields not sent
BookPatches ==
    [price : {JsUndefined, JsNum(7), JsRat(15, 2), JsNum(-1)},
     stock_quantity : {JsUndefined, JsNum(0), JsNum(1), JsNum(-1), JsRat(3, 2)},
     genre_id : {NoGenre, "g1"}]

\* book.controller.ts lines 180-200: the status of the checks on the body, 0
\* when they all pass; a conversion that throws is caught with the 500 of
\* the handler
UpdateBookCheck(patch) ==
    IF patch.price # JsUndefined /\ Throws(patch.price)
    THEN 500
    ELSE IF /\ patch.price # JsUndefined
            /\ LtZero(Number(patch.price)) \/ IsNaN(Number(patch.price))
    THEN 400
    ELSE IF patch.stock_quantity # JsUndefined /\ Throws(patch.stock_quantity)
    THEN 500
    ELSE IF /\ patch.stock_quantity # JsUndefined
            /\ \/ LtZero(Number(patch.stock_quantity))
               \/ ~NumberIsInteger(Number(patch.stock_quantity))
               \/ IsNaN(Number(patch.stock_quantity))
    THEN 400
    ELSE 0

\* book.controller.ts lines 161-200: dataToUpdate applied to a row
Patched(row, patch) ==
    [row EXCEPT
       !.genreId = IF patch.genre_id # NoGenre THEN patch.genre_id ELSE @,
       !.price = IF patch.price # JsUndefined THEN Number(patch.price) ELSE @,
       !.stockQuantity = IF patch.stock_quantity # JsUndefined
                         THEN IntOf(Number(patch.stock_quantity)) ELSE @]

\* book.controller.ts lines 142-232: updateBook; prisma.book.update finds
\* no row for an id without active row (P2025, 404) and refuses a genre id
\* without row and a stock beyond the Int column (500)
UpdateBook(b, patch) ==
    /\ books' =
          IF /\ UpdateBookCheck(patch) = 0
             /\ patch.stock_quantity # JsUndefined => FitsInt(Number(patch.stock_quantity))
             /\ b \in DOMAIN books
             /\ ~books[b].deletedAt
             /\ patch.genre_id # NoGenre => patch.genre_id \in DOMAIN genres
          THEN [books EXCEPT ![b] = Patched(@, patch)]
          ELSE books
    /\ UNCHANGED <<orders, req, stock0, clock, genres, gen, qres, stats, closed>>

\* ------------------------------ createGenre, updateGenre, deleteGenre
\* genre.controller.ts.  A genre handler reads, then writes: one action for
\* each of the two storage calls.
NewGenreIds == {"g3", "g4"}        \* the ids the store gives to created genres

GenreAnswer(op, id, name, status) ==
    [pc |-> "done", op |-> op, id |-> id, name |-> name, status |-> status]
GenreToWrite(op, id, name) ==
    [pc |-> "write", op |-> op, id |-> id, name |-> name, status |-> 0]

\* lines 14-20: prisma.genre.findFirst({where: {name, deletedAt: null}})
ActiveGenreNamed(name) ==
    {g \in DOMAIN genres : genres[g].name = name /\ ~genres[g].deletedAt}

\* lines 6-25 and 29-31: createGenre up to its write: 400 without name, 500
\* when the read throws, 409 when an active genre has the name
CreateGenreCheck(a, name) ==
    /\ gen[a].pc = "idle"
    /\ \E thrown \in BOOLEAN :
          gen' = [gen EXCEPT ![a] =
                    IF name = "" THEN GenreAnswer("createGenre", NoGenre, name, 400)
                    ELSE IF thrown THEN GenreAnswer("createGenre", NoGenre, name, 500)
                    ELSE IF ActiveGenreNamed(name) # {}
                    THEN GenreAnswer("createGenre", NoGenre, name, 409)
                    ELSE GenreToWrite("createGenre", NoGenre, name)]
    /\ UNCHANGED <<books, orders, req, stock0, clock, genres, qres, stats, closed>>

\* lines 26-27: prisma.genre.create({data: {name}}), 201
CreateGenreWrite(a) ==
    /\ gen[a].pc = "write"
    /\ gen[a].op = "createGenre"
    /\ \E id \in NewGenreIds \ DOMAIN genres :
          /\ genres' = [g \in DOMAIN genres \cup {id} |->
                          IF g = id
                          THEN [id |-> id, name |-> gen[a].name, deletedAt |-> FALSE]
                          ELSE genres[g]]
          /\ gen' = [gen EXCEPT ![a] = GenreAnswer("createGenre", id, gen[a].name, 201)]
    /\ UNCHANGED <<books, orders, req, stock0, clock, qres, stats, closed>>

\* lines 76-96 and 108-114: updateGenre up to its write: 400 without name,
\* 500 when the read throws, 409 when another active genre has the name
UpdateGenreCheck(a, id, name) ==
    /\ gen[a].pc = "idle"
    /\ \E thrown \in BOOLEAN :
          gen' = [gen EXCEPT ![a] =
                    IF name = "" THEN GenreAnswer("updateGenre", id, name, 400)
                    ELSE IF thrown THEN GenreAnswer("updateGenre", id, name, 500)
                    ELSE IF ActiveGenreNamed(name) \ {id} # {}
                    THEN GenreAnswer("updateGenre", id, name, 409)
                    ELSE GenreToWrite("updateGenre", id, name)]
    /\ UNCHANGED <<books, orders, req, stock0, clock, genres, qres, stats, closed>>

\* lines 98-113: prisma.genre.update({where: {id, deletedAt: null}, data:
\* {name}}), 200, or 404 when no active row has the id (P2025)
UpdateGenreWrite(a) ==
    /\ gen[a].pc = "write"
    /\ gen[a].op = "updateGenre"
    /\ IF gen[a].id \in DOMAIN genres /\ ~genres[gen[a].id].deletedAt
       THEN /\ genres' = [genres EXCEPT ![gen[a].id].name = gen[a].name]
            /\ gen' = [gen EXCEPT ![a] =
                         GenreAnswer("updateGenre", gen[a].id, gen[a].name, 200)]
       ELSE /\ genres' = genres
            /\ gen' = [gen EXCEPT ![a] =
                         GenreAnswer("updateGenre", gen[a].id, gen[a].name, 404)]
    /\ UNCHANGED <<books, orders, req, stock0, clock, qres, stats, closed>>

\* lines 119-130 and 143-149: deleteGenre up to its write:
\* prisma.book.count({where: {genreId}}), deleted books counted too, 500 when
\* it throws, 409 when it is not 0
DeleteGenreCheck(a, id) ==
    /\ gen[a].pc = "idle"
    /\ \E thrown \in BOOLEAN :
          gen' = [gen EXCEPT ![a] =
                    IF thrown THEN GenreAnswer("deleteGenre", id, "", 500)
                    ELSE IF Cardinality({b \in DOMAIN books : books[b].genreId = id}) > 0
                    THEN GenreAnswer("deleteGenre", id, "", 409)
                    ELSE GenreToWrite("deleteGenre", id, "")]
    /\ UNCHANGED <<books, orders, req, stock0, clock, genres, qres, stats, closed>>

\* lines 132-147: prisma.genre.update({where: {id, deletedAt: null}, data:
\* {deletedAt}}), 200, or 404 when no active row has the id (P2025)
DeleteGenreWrite(a) ==
    /\ gen[a].pc = "write"
    /\ gen[a].op = "deleteGenre"
    /\ IF gen[a].id \in DOMAIN genres /\ ~genres[gen[a].id].deletedAt
       THEN /\ genres' = [genres EXCEPT ![gen[a].id].deletedAt = TRUE]
            /\ gen' = [gen EXCEPT ![a] = GenreAnswer("deleteGenre", gen[a].id, "", 200)]
       ELSE /\ genres' = genres
            /\ gen' = [gen EXCEPT ![a] = GenreAnswer("deleteGenre", gen[a].id, "", 404)]
    /\ UNCHANGED <<books, orders, req, stock0, clock, qres, stats, closed>>

\* the catch of the three handlers when the write throws: 500
GenreFault(a) ==
    /\ gen[a].pc = "write"
    /\ gen' = [gen EXCEPT ![a] = GenreAnswer(gen[a].op, gen[a].id, gen[a].name, 500)]
    /\ UNCHANGED <<books, orders, req, stock0, clock, genres, qres, stats, closed>>

\* ------------------------------ getAllTransactions, getTransactionDetail
MsgHistory == "Your transactions history fetched successfully"
MsgDetail == "Transaction detail fetched successfully"
MsgNoTransaction == "Transaction not found or you do not have access"
MsgInternal == "Internal server error"

QueryResponse(op, userId, id, status, message, data) ==
    [op |-> op, userId |-> userId, id |-> id,
     status |-> status, message |-> message, data |-> data]

\* include: {orderItems: {include: {book: {select: {title, price}}}}}: the
\* order row with, on every line, the book row as the book table has it now
WithBooks(order, tbl) ==
    [id |-> order.id, userId |-> order.userId, createdAt |-> order.createdAt,
     orderItems |-> [i \in 1..Len(order.orderItems) |->
                       [bookId |-> order.orderItems[i].bookId,
                        quantity |-> order.orderItems[i].quantity,
                        book |-> [title |-> tbl[order.orderItems[i].bookId].title,
                                  price |-> tbl[order.orderItems[i].bookId].price]]]]

\* where: {userId: userId}: a filter whose value is undefined is no filter
OwnedBy(order, userId) == userId = NoUser \/ order.userId = userId

\* mutant: orderBy: {createdAt: 'asc'}
RECURSIVE OrderByCreatedAtDesc_Asc(_)
OrderByCreatedAtDesc_Asc(rows) ==
    IF rows = {} THEN <<>>
    ELSE LET first == CHOOSE o \in rows : \A p \in rows : o.createdAt <= p.createdAt
         IN <<first>> \o OrderByCreatedAtDesc_Asc(rows \ {first})

\* orderBy: {createdAt: 'desc'} on a set of order rows
RECURSIVE OrderByCreatedAtDesc(_)
OrderByCreatedAtDesc(rows) ==
    IF rows = {} THEN <<>>
    ELSE LET first == CHOOSE o \in rows : \A p \in rows : p.createdAt <= o.createdAt
         IN <<first>> \o OrderByCreatedAtDesc(rows \ {first})

\* lines 135-146: prisma.order.findMany({where: {userId}, orderBy, include})
FindOrdersOf(userId) ==
    LET found == OrderByCreatedAtDesc(
                     {orders[i] : i \in {j \in 1..Len(orders) : OwnedBy(orders[j], userId)}})
    IN [i \in 1..Len(found) |-> WithBooks(found[i], books)]

\* lines 131-161: getAllTransactions, with the read answering or throwing
GetAllTransactions(userId) ==
    /\ qres' \in {QueryResponse("getAllTransactions", userId, NoOrderId, 200, MsgHistory,
                                FindOrdersOf(userId)),
                  QueryResponse("getAllTransactions", userId, NoOrderId, 500, MsgInternal,
                                <<>>)}
    /\ UNCHANGED <<books, orders, req, stock0, clock, genres, gen, stats, closed>>

\* mutant: lines 170-173 without userId in the where
FindOrder_AnyOwner(id, userId) ==
    LET found == {i \in 1..Len(orders) : orders[i].id = id}
    IN [i \in 1..Cardinality(found) |-> WithBooks(orders[CHOOSE j \in found : TRUE], books)]

\* lines 169-185: prisma.order.findUnique({where: {id, userId}, include}),
\* as the sequence of the order found, empty for null
FindOrder(id, userId) ==
    LET found == {i \in 1..Len(orders) : orders[i].id = id /\ OwnedBy(orders[i], userId)}
    IN [i \in 1..Cardinality(found) |-> WithBooks(orders[CHOOSE j \in found : TRUE], books)]

\* lines 164-207: getTransactionDetail, with the read answering or throwing
GetTransactionDetail(userId, id) ==
    /\ LET transaction == FindOrder(id, userId) IN
       qres' \in {IF transaction = <<>>
                  THEN QueryResponse("getTransactionDetail", userId, id, 404,
                                     MsgNoTransaction, <<>>)
                  ELSE QueryResponse("getTransactionDetail", userId, id, 200,
                                     MsgDetail, transaction),
                  QueryResponse("getTransactionDetail", userId, id, 500, MsgInternal, <<>>)}
    /\ UNCHANGED <<books, orders, req, stock0, clock, genres, gen, stats, closed>>

UnknownGenre == "Unknown Genre"

\* include: {orderItems: {include: {book: {include: {genre: true}}}}}: the
\* order row with, on every line, the book row and the name of its genre row,
\* the empty sequence for a book without genre
WithGenres(order, tbl, gtbl) ==
    [id |-> order.id,
     orderItems |-> [i \in 1..Len(order.orderItems) |->
                       LET book == tbl[order.orderItems[i].bookId] IN
                       [bookId |-> order.orderItems[i].bookId,
                        quantity |-> order.orderItems[i].quantity,
                        book |-> [price |-> book.price,
                                  genre |-> IF book.genreId \in DOMAIN gtbl
                                            THEN <<gtbl[book.genreId].name>>
                                            ELSE <<>>]]]]

\* the sequences that hold every element of the set once
Orderings(S) ==
    {q \in [1..Cardinality(S) -> S] : \A x \in S : \E i \in 1..Cardinality(S) : q[i] = x}

\* lines 214-218: the results prisma.order.findMany({include}) may give: the
\* rows of the order table in an order that no orderBy fixes
FindAllOrders ==
    {[i \in 1..Len(orders) |-> WithGenres(orders[p[i]], books, genres)] :
        p \in Orderings(1..Len(orders))}

\* the lines of the orders, in the order the loops of lines 223-232 meet them
RECURSIVE Flatten(_)
Flatten(allOrders) ==
    IF allOrders = <<>> THEN <<>>
    ELSE allOrders[1].orderItems \o Flatten(Tail(allOrders))

\* line 229: item.book.genre?.name || "Unknown Genre"
GenreNameOf(item) ==
    IF item.book.genre = <<>> \/ item.book.genre[1] = ""
    THEN UnknownGenre
    ELSE item.book.genre[1]

\* the characters of a name
Chars(name) == [i \in 1..Len(name) |-> SubSeq(name, i, i)]

\* the digits a are before the digits b of the same length
RECURSIVE DigitsBefore(_, _)
DigitsBefore(a, b) ==
    IF a = <<>> THEN FALSE
    ELSE IF DigitVal(a[1]) # DigitVal(b[1]) THEN DigitVal(a[1]) < DigitVal(b[1])
    ELSE DigitsBefore(Tail(a), Tail(b))

\* the canonical numeric string a is the smaller number
IndexBefore(a, b) ==
    \/ Len(a) < Len(b)
    \/ Len(a) = Len(b) /\ DigitsBefore(Chars(a), Chars(b))

\* the property key is an array index: the canonical string of an integer
\* from 0 to 2^32 - 2
IsArrayIndex(key) ==
    /\ IsDigits(Chars(key))
    /\ Len(key) = 1 \/ SubSeq(key, 1, 1) # "0"
    /\ key = "4294967294" \/ IndexBefore(key, "4294967294")

\* the members of Object.prototype that are functions, and the text of one
PrototypeFunctions ==
    {"constructor", "hasOwnProperty", "isPrototypeOf", "propertyIsEnumerable",
     "toLocaleString", "toString", "valueOf", "__defineGetter__",
     "__defineSetter__", "__lookupGetter__", "__lookupSetter__"}
FunctionText(key) ==
    Chars("function " \o (IF key = "constructor" THEN "Object" ELSE key)
              \o "() { [native code] }")

\* genreCount[key] of the object kept as the sequence of its entries: the
\* own property, or the member of Object.prototype of that name
GetProperty(genreCount, key) ==
    IF \E i \in 1..Len(genreCount) : genreCount[i][1] = key
    THEN genreCount[CHOOSE i \in 1..Len(genreCount) : genreCount[i][1] = key][2]
    ELSE IF key \in PrototypeFunctions THEN JsStr(FunctionText(key))
    ELSE IF key = "__proto__" THEN JsObject({})
    ELSE JsUndefined

\* a + b with b a number: the sum of two numbers, or the text of a followed
\* by the text of the integer b
JsPlus(a, b) ==
    CASE a.k = "string" -> JsStr(a.s \o Chars(ToString(IntOf(b))))
      [] a.k = "object" -> JsStr(Chars("[object Object]") \o Chars(ToString(IntOf(b))))
      [] OTHER -> JsAdd(a, b)

\* genreCount[key] = val: the entry of a key the object has keeps its
\* place; a new array index goes among the array indices, in ascending
\* order and before every other key; another new key goes last; the setter
\* of __proto__ drops a value that is no object
SetProperty(genreCount, key, val) ==
    IF \E i \in 1..Len(genreCount) : genreCount[i][1] = key
    THEN [i \in 1..Len(genreCount) |->
            IF genreCount[i][1] = key THEN <<key, val>> ELSE genreCount[i]]
    ELSE IF key = "__proto__" THEN genreCount
    ELSE IF IsArrayIndex(key)
    THEN LET k == Cardinality({i \in 1..Len(genreCount) :
                                  /\ IsArrayIndex(genreCount[i][1])
                                  /\ IndexBefore(genreCount[i][1], key)})
         IN SubSeq(genreCount, 1, k) \o <<<<key, val>>>>
                \o SubSeq(genreCount, k + 1, Len(genreCount))
    ELSE Append(genreCount, <<key, val>>)

\* line 230: genreCount[genreName] = (genreCount[genreName] || 0) +
\* item.quantity, on genreCount kept as Object.entries(genreCount); the
\* quantity is a value of the Int column
CountGenre(genreCount, genreName, quantity) ==
    LET current == GetProperty(genreCount, genreName)
        base == IF JsFalsy(current) THEN JsNum(0) ELSE current
    IN SetProperty(genreCount, genreName, JsPlus(base, JsNum(quantity)))

\* lines 223-232 from line i of the flattened lines on
RECURSIVE Aggregate(_, _, _)
Aggregate(items, i, acc) ==
    IF i > Len(items) THEN acc
    ELSE Aggregate(items, i + 1,
            [totalPrice |-> JsAdd(acc.totalPrice, JsMul(items[i].book.price, items[i].quantity)),
             genreCount |-> CountGenre(acc.genreCount, GenreNameOf(items[i]),
                                       IntOf(items[i].quantity))])

\* lines 234-235: totalTransactions > 0 ? totalPrice / totalTransactions : 0
Average(totalPrice, totalTransactions) ==
    IF totalTransactions > 0 THEN JsDiv(totalPrice, JsNum(totalTransactions)) ELSE JsNum(0)

\* the order the sort reads from the result of its comparator
Order(diff) == IF diff.k = "NaN" \/ IsZero(diff) THEN 0 ELSE diff.sign

\* line 238: the comparator (a, b) => b[1] - a[1] as the sort reads it: the
\* sign of the difference, 0 when it is NaN (one of the two is a text that
\* is no number)
CompareCount(a, b) == Order(JsAdd(Number(b[2]), JsNeg(Number(a[2]))))

\* the place, counted from 0, where the binary search of the sort puts the
\* pivot among the sorted entries from left to right
RECURSIVE InsertionPlace(_, _, _, _)
InsertionPlace(sorted, pivot, left, right) ==
    IF left >= right THEN left
    ELSE LET mid == left + (right - left) \div 2 IN
         IF CompareCount(pivot, sorted[mid + 1]) < 0
         THEN InsertionPlace(sorted, pivot, left, mid)
         ELSE InsertionPlace(sorted, pivot, mid + 1, right)

\* the length of the run of entries whose steps are all as the first one,
\* before[i] saying that entry i + 1 is before entry i
RunOf(before) ==
    IF \A i \in 1..Len(before) : before[i] = before[1] THEN Len(before) + 1
    ELSE CHOOSE i \in 2..Len(before) :
            before[i] # before[1] /\ \A j \in 2..(i - 1) : before[j] = before[1]

\* the length of the run the sort finds at the start of the entries: the
\* second entry is compared with the first, and the run goes on while each
\* entry is before the one it follows (a run the sort reverses) or while
\* none is
RunLength(entries) ==
    IF Len(entries) < 2 THEN Len(entries)
    ELSE RunOf([i \in 1..(Len(entries) - 1) |->
                  CompareCount(entries[i + 1], entries[i]) < 0])

\* the entries with the one at start put after the first k
InsertAt(a, start, k) ==
    SubSeq(a, 1, k) \o <<a[start]>> \o SubSeq(a, k + 1, start - 1)
        \o SubSeq(a, start + 1, Len(a))

\* the entries with those from start on put, one after the other, at their
\* place among the sorted entries before them
RECURSIVE InsertFrom(_, _)
InsertFrom(a, start) ==
    IF start > Len(a) THEN a
    ELSE InsertFrom(InsertAt(a, start, InsertionPlace(a, a[start], 0, start - 1)),
                    start + 1)

\* the entries sorted, the first r of them a run
SortFromRun(entries, r) ==
    InsertFrom((IF r >= 2 /\ CompareCount(entries[2], entries[1]) < 0
                THEN [i \in 1..r |-> entries[r + 1 - i]]
                ELSE SubSeq(entries, 1, r))
                   \o SubSeq(entries, r + 1, Len(entries)),
               r + 1)

\* lines 237-239: Object.entries(genreCount).sort((a, b) => b[1] - a[1]),
\* the sort the engine runs on an array of fewer than 64 entries: the run
\* at the start is taken as it is, or reversed, and the entries after it are
\* put in by binary insertion
SortByCountDesc(entries) == SortFromRun(entries, RunLength(entries))

\* lines 234-253: the data of the response from the count, the total price
\* and the sorted entries of genreCount
StatisticsData(totalTransactions, totalPrice, sortedGenres) ==
    [total_transactions |-> totalTransactions,
     average_transaction_amount |-> Average(totalPrice, totalTransactions),
     most_book_sales_genre |->
         IF Len(sortedGenres) > 0 THEN <<sortedGenres[1][1]>> ELSE <<>>,
     fewest_book_sales_genre |->
         IF Len(sortedGenres) > 0 THEN <<sortedGenres[Len(sortedGenres)][1]>> ELSE <<>>]
\* lines 234-253 on the sums agg of the loops
StatisticsOf(totalTransactions, agg) ==
    StatisticsData(totalTransactions, agg.totalPrice, SortByCountDesc(agg.genreCount))

\* lines 220-253: the data of the response from the count and the rows read
Statistics(totalTransactions, allOrders) ==
    StatisticsOf(totalTransactions,
                 Aggregate(Flatten(allOrders), 1,
                           [totalPrice |-> JsNum(0), genreCount |-> <<>>]))

\* line 212: prisma.order.count()
StatsCount ==
    /\ stats.pc = "idle"
    /\ stats' = [stats EXCEPT !.pc = "counted", !.totalTransactions = Len(orders)]
    /\ UNCHANGED <<books, orders, req, stock0, clock, genres, gen, qres, closed>>

\* lines 214-253: prisma.order.findMany, the aggregation and the 200
StatsRespond ==
    /\ stats.pc = "counted"
    /\ \E allOrders \in FindAllOrders :
          stats' = [stats EXCEPT !.pc = "done", !.allOrders = allOrders,
                                 !.status = 200,
                                 !.data = Statistics(stats.totalTransactions, allOrders)]
    /\ UNCHANGED <<books, orders, req, stock0, clock, genres, gen, qres, closed>>

\* lines 254-260: one of the two reads throws
StatsFault ==
    /\ stats.pc \in {"idle", "counted"}
    /\ stats' = [stats EXCEPT !.pc = "done", !.status = 500]
    /\ UNCHANGED <<books, orders, req, stock0, clock, genres, gen, qres, closed>>

\* ------------------------------------------------------- specifications
\* one-line orders of authenticated users, racing with each other and with
\* deleteBook
Next ==
    \/ \E r \in Slots : Validate(r, {SlotUser(r)}, OrderBodies)
    \/ \E r \in Slots : ValidateFault(r, {SlotUser(r)}, OrderBodies)
    \/ \E r \in Slots : TxOrderCreate(r)
    \/ \E r \in Slots : TxBookUpdate(r)
    \/ \E r \in Slots : TxCommit(r)
    \/ \E r \in Slots : TxFail(r)
    \/ \E b \in BookIds : DeleteBook(b)

Spec == Init /\ [][Next]_vars

\* one request of any shape, by anyone, with deleteBook
NextInput ==
    \/ Validate(1, Users \cup {NoUser}, AnyBodies)
    \/ ValidateFault(1, Users \cup {NoUser}, AnyBodies)
    \/ TxOrderCreate(1)
    \/ TxBookUpdate(1)
    \/ TxCommit(1)
    \/ TxFail(1)
    \/ \E b \in BookIds : DeleteBook(b)

SpecInput == Init /\ [][NextInput]_vars

\* the store before the first request, with full stock
InitFullStock ==
    /\ Init
    /\ stock0 = [b \in BookIds |-> MaxStock]

\* orders of one and of two lines, and requests whose items is [null],
\* racing with each other, their callers closing the connection or not; a
\* handler whose transaction is open keeps taking steps until it has
\* answered
HandlerStep(r) == TxOrderCreate(r) \/ TxBookUpdate(r) \/ TxCommit(r) \/ TxFail(r)

LiveBodies ==
    {ItemsArray(<<Line("b1", JsNum(1))>>),
     ItemsArray(<<Line("b2", JsNum(1)), Line("b1", JsNum(1))>>),
     ItemsArray(<<NullLine>>)}

NextLive ==
    \/ \E r \in Slots : Validate(r, {SlotUser(r)}, LiveBodies)
    \/ \E r \in Slots : ValidateFault(r, {SlotUser(r)}, LiveBodies)
    \/ \E r \in Slots : TxOrderCreate(r)
    \/ \E r \in Slots : TxBookUpdate(r)
    \/ \E r \in Slots : TxCommit(r)
    \/ \E r \in Slots : TxFail(r)
    \/ \E r \in Slots : Disconnect(r)

SpecLive ==
    /\ InitFullStock
    /\ [][NextLive]_vars
    /\ \A r \in Slots : WF_vars(HandlerStep(r))

\* the ids a transaction query may name
QueryIds == Slots \cup {NoOrderId}

\* one order of several lines, by either user, and getTransactionDetail by
\* either user
NextRoundTrip ==
    \/ Validate(1, Users, BasketBodies)
    \/ ValidateFault(1, Users, BasketBodies)
    \/ TxOrderCreate(1)
    \/ TxBookUpdate(1)
    \/ TxCommit(1)
    \/ TxFail(1)
    \/ \E userId \in Users, id \in QueryIds : GetTransactionDetail(userId, id)

SpecRoundTrip == Init /\ [][NextRoundTrip]_vars

\* one-copy orders of either user racing with each other, and
\* getAllTransactions by either user
NextHistory ==
    \/ \E r \in Slots : Validate(r, Users, SingleBodies)
    \/ \E r \in Slots : ValidateFault(r, Users, SingleBodies)
    \/ \E r \in Slots : TxOrderCreate(r)
    \/ \E r \in Slots : TxBookUpdate(r)
    \/ \E r \in Slots : TxCommit(r)
    \/ \E r \in Slots : TxFail(r)
    \/ \E userId \in Users : GetAllTransactions(userId)

SpecHistory == InitFullStock /\ [][NextHistory]_vars

\* the genres of the books of the table: of two genres, of one genre, and
\* one book without genre
GenreAssignments ==
    {BookGenre,
     [b \in BookIds |-> "g1"],
     [b \in BookIds |-> IF b = "b1" THEN "g1" ELSE NoGenre]}

\* the names genre g2 may have been given while a book has it: createGenre
\* and updateGenre take any name that is not empty
StatisticsNames == {GenreName["g2"], "7", "constructor"}

\* the store before the first request, with full stock
InitStatistics ==
    /\ stock0 = [b \in BookIds |-> MaxStock]
    /\ \E genreOf \in GenreAssignments :
          /\ books = [b \in BookIds |->
                        [id |-> b, title |-> BookTitle[b], price |-> BookPrice[b],
                         stockQuantity |-> stock0[b], genreId |-> genreOf[b],
                         deletedAt |-> FALSE]]
          /\ \E name \in StatisticsNames :
                /\ name # GenreName["g2"] => genreOf = BookGenre
                /\ genres = [g \in GenreIds |->
                               [id |-> g,
                                name |-> IF g = "g2" THEN name ELSE GenreName[g],
                                deletedAt |-> FALSE]]
    /\ orders = <<>>
    /\ req = [r \in Slots |-> IdleReq]
    /\ clock = 0
    /\ gen = [a \in GenreSlots |-> IdleGenre]
    /\ qres = NoQuery
    /\ stats = IdleStats
    /\ closed = {}

\* one line that asks one or two copies of b1, or one copy of b2
SoldBodies ==
    {ItemsArray(<<l>>) :
        l \in {m \in LinesOf(OrderQuantities) :
                  m.book_id = "b1" \/ (m.book_id = "b2" /\ m.quantity = JsNum(1))}}

\* one-line orders racing with each other and with getTransactionStatistics
NextStatistics ==
    \/ \E r \in Slots : Validate(r, {SlotUser(r)}, SoldBodies)
    \/ \E r \in Slots : ValidateFault(r, {SlotUser(r)}, SoldBodies)
    \/ \E r \in Slots : TxOrderCreate(r)
    \/ \E r \in Slots : TxBookUpdate(r)
    \/ \E r \in Slots : TxCommit(r)
    \/ \E r \in Slots : TxFail(r)
    \/ StatsCount
    \/ StatsRespond
    \/ StatsFault

SpecStatistics == InitStatistics /\ [][NextStatistics]_vars

\* the requests of the catalogue run: an order of one copy of b1, a new
\* book with a fresh or a used title, a stock_quantity for b1, good or bad,
\* a genre for b2
CatalogueOrders == {ItemsArray(<<Line("b1", JsNum(1))>>)}
CatalogueBooks ==
    {body \in BookBodies :
        /\ body.title # "" /\ body.price = JsRat(15, 2)
        /\ body.stock_quantity = JsNum(1) /\ body.genre_id = "g1"}
CatalogueStocks ==
    {patch \in BookPatches :
        /\ patch.price = JsUndefined
        /\ patch.stock_quantity \in {JsNum(0), JsNum(-1)}
        /\ patch.genre_id = NoGenre}
CatalogueGenres ==
    {patch \in BookPatches :
        /\ patch.price = JsUndefined
        /\ patch.stock_quantity = JsUndefined
        /\ patch.genre_id = "g1"}

\* orders racing with each other, with the operations on books and genres
\* and with the history query of the first user
NextCatalogue ==
    \/ \E r \in Slots : Validate(r, {SlotUser(r)}, CatalogueOrders)
    \/ \E r \in Slots : ValidateFault(r, {SlotUser(r)}, CatalogueOrders)
    \/ \E r \in Slots : TxOrderCreate(r)
    \/ \E r \in Slots : TxBookUpdate(r)
    \/ \E r \in Slots : TxCommit(r)
    \/ \E r \in Slots : TxFail(r)
    \/ \E body \in CatalogueBooks : CreateBook(body)
    \/ \E patch \in CatalogueStocks : UpdateBook("b1", patch)
    \/ \E patch \in CatalogueGenres : UpdateBook("b2", patch)
    \/ DeleteBook("b1")
    \/ CreateGenreCheck(1, "Poetry")
    \/ CreateGenreWrite(1)
    \/ UpdateGenreCheck(1, "g2", "Poetry")
    \/ UpdateGenreWrite(1)
    \/ DeleteGenreCheck(1, "g2")
    \/ DeleteGenreWrite(1)
    \/ GenreFault(1)
    \/ GetAllTransactions("u1")

SpecCatalogue == InitFullStock /\ [][NextCatalogue]_vars


\* the requests of the genre run: a genre for a book, a new book of genre
\* g1, the deletion of g1, a genre named Poetry created and g2 renamed
GenrePatches ==
    [price : {JsUndefined, JsRat(15, 2)}, stock_quantity : {JsUndefined},
     genre_id : GenreIds]
GenreBooks ==
    [title : {NewTitle}, price : {JsRat(15, 2)}, stock_quantity : {JsNum(1)},
     genre_id : {"g1"}]
NewGenreName == "Poetry"

\* the handlers of books and genres racing with each other, a genre request
\* in each of the two genre slots
NextGenre ==
    \/ \E b \in BookIds, patch \in GenrePatches : UpdateBook(b, patch)
    \/ \E body \in GenreBooks : CreateBook(body)
    \/ \E a \in GenreSlots : DeleteGenreCheck(a, "g1")
    \/ \E a \in GenreSlots : DeleteGenreWrite(a)
    \/ \E a \in GenreSlots : CreateGenreCheck(a, NewGenreName)
    \/ \E a \in GenreSlots : CreateGenreWrite(a)
    \/ \E a \in GenreSlots : UpdateGenreCheck(a, "g2", NewGenreName)
    \/ \E a \in GenreSlots : UpdateGenreWrite(a)
    \/ \E a \in GenreSlots : GenreFault(a)

SpecGenre == InitFullStock /\ [][NextGenre]_vars

\* ------------------------------------------------- vocabulary of the claims
Done(r) == req[r].pc = "done"
Status(r) == req[r].res.status
Authenticated(r) == req[r].userId # NoUser

\* the value is, after numeric coercion, a finite positive integer
PositiveInteger(raw) ==
    LET v == Number(raw) IN v.k = "number" /\ NumberIsInteger(v) /\ ~LeqZero(v)

\* the body is a non-empty array of lines, objects with positive integer
\* quantities
WellFormed(body) ==
    /\ body.k = "array"
    /\ Len(body.v) >= 1
    /\ \A i \in 1..Len(body.v) :
          body.v[i].k = "object" /\ PositiveInteger(body.v[i].quantity)

\* the quantity line i of a well-formed body asks
Asked(body, i) == IntOf(Number(body.v[i].quantity))

RECURSIVE SumSeq(_)
SumSeq(q) == IF q = <<>> THEN 0 ELSE q[1] + SumSeq(Tail(q))

\* the sum of a sequence of numbers, added one after the other to 0
RECURSIVE SumJs(_)
SumJs(q) ==
    IF q = <<>> THEN JsNum(0)
    ELSE JsAdd(SumJs(SubSeq(q, 1, Len(q) - 1)), q[Len(q)])

\* the quantity of book b in the lines of one order
OrderedOf(order, b) ==
    SumSeq([i \in 1..Len(order.orderItems) |->
              IF order.orderItems[i].bookId = b
              THEN IntOf(order.orderItems[i].quantity) ELSE 0])

\* the quantity of book b in the lines of all committed orders
Sold(b) == SumSeq([i \in 1..Len(orders) |-> OrderedOf(orders[i], b)])

\* the step is the commit of the transaction of request r
Commits(r) == req[r].pc = "tx" /\ req'[r].pc = "done" /\ req'[r].res.status = 201

\* the step is the validation of the request that arrives in slot r
Validates(r) == req[r].pc = "idle" /\ req'[r].pc # "idle"

Created == {r \in Slots : Done(r) /\ Status(r) = 201}

\* ---------------------------------------------------------------- claims

\* C1: no oversell under concurrency.  When every request of the run asked
\* quantity q of the same active book b, with q <= S and N*q > S for the
\* initial stock S, and none met a storage fault, exactly floor(S/q) of them
\* got 201 and the final stock is S - (number of 201)*q.
C1_NoOversell ==
    \A b \in BookIds, q \in 1..MaxStock :
        ( /\ \A r \in Slots :
                /\ Done(r)
                /\ req[r].body = ItemsArray(<<Line(b, JsNum(q))>>)
                /\ Status(r) # 500
          /\ ~books[b].deletedAt
          /\ q <= stock0[b]
          /\ NumRequests * q > stock0[b] )
        => /\ Cardinality(Created) = stock0[b] \div q
           /\ books[b].stockQuantity = stock0[b] - Cardinality(Created) * q

\* C2: stock conservation.  For every book the initial stock minus the
\* current stock is the sum of the quantities of its committed order lines.
C2_StockConservation ==
    \A b \in BookIds : stock0[b] - books[b].stockQuantity = Sold(b)

\* C3: the stock of every book is never negative.
C3_StockNonNegative ==
    \A b \in BookIds : books[b].stockQuantity >= 0

\* C3 witness: two orders of the same book have committed and its stock is 0.
C3_Witness ==
    \E b \in BookIds :
        /\ books[b].stockQuantity = 0
        /\ Len(orders) = 2
        /\ \A i \in 1..2 : OrderedOf(orders[i], b) >= 1

\* C4: the stock write of a commit is a decrement of the stock current at
\* write time, applied only when that stock covers the quantity asked.
C4_DecrementAtWrite ==
    [][\A r \in Slots : Commits(r) =>
          \A b \in BookIds :
              OrderedOf(req[r].tx.order[1], b) >= 1 =>
                  /\ books[b].stockQuantity >= OrderedOf(req[r].tx.order[1], b)
                  /\ books'[b].stockQuantity =
                        books[b].stockQuantity - OrderedOf(req[r].tx.order[1], b)]_vars

\* C7: every line of an order references a book that is active when the
\* transaction of the order commits.
C7_ActiveAtCommit ==
    [][\A r \in Slots : Commits(r) =>
          \A i \in 1..Len(req[r].items) :
              /\ req[r].items[i].book_id \in DOMAIN books'
              /\ ~books'[req[r].items[i].book_id].deletedAt]_vars


\* the request of slot r is an order of several lines by an authenticated
\* user, all quantities positive integers, and some line asks more than the
\* stock of its book
ShortMultiLine(r) ==
    /\ Done(r)
    /\ Authenticated(r)
    /\ WellFormed(req[r].body)
    /\ Len(req[r].body.v) >= 2
    /\ \E i \in 1..Len(req[r].body.v) :
          /\ req[r].body.v[i].book_id \in BookIds
          /\ Asked(req[r].body, i) > stock0[req[r].body.v[i].book_id]

\* no order of request r is stored and every book has its initial stock
NoEffect(r) ==
    /\ \A i \in 1..Len(orders) : orders[i].id # r
    /\ \A b \in BookIds : books[b].stockQuantity = stock0[b]

\* C5 as stated: a createTransaction of several lines with a line that asks
\* more than the stock of its book leaves no order of the request and every
\* stock unchanged, and is answered 409, unless a storage fault answers 500.
C5_ShortLineIs409 ==
    \A r \in Slots :
        ShortMultiLine(r) =>
            /\ NoEffect(r)
            /\ Status(r) # 500 => Status(r) = 409

\* C6: a request whose transaction was opened and did not commit is answered
\* 500, and no order of it and no stock write of it is visible.
C6_FullRollback ==
    \A r \in Slots :
        (Done(r) /\ req[r].storageCalls = 2 /\ Status(r) # 201) =>
            (Status(r) = 500 /\ NoEffect(r))

\* C6 witness: the transaction of a two-line order has failed.
C6_Witness ==
    \E r \in Slots :
        /\ Done(r)
        /\ req[r].storageCalls = 2
        /\ Status(r) = 500
        /\ Len(req[r].body.v) = 2

\* C8: a request of an authenticated user whose items is missing, no array
\* or empty, or has a line whose quantity is no positive integer, is answered
\* 400, for a bad quantity with the book id of the first such line, without
\* any storage call, and the store is unchanged.
C8_RejectedBeforeStorage ==
    \A r \in Slots :
        (req[r].pc # "idle" /\ Authenticated(r) /\ ~WellFormed(req[r].body)) =>
            /\ Done(r)
            /\ Status(r) = 400
            /\ req[r].storageCalls = 0
            /\ NoEffect(r)
            /\ (req[r].body.k = "array" /\ Len(req[r].body.v) >= 1) =>
                  \E i \in 1..Len(req[r].body.v) :
                      /\ ~PositiveInteger(req[r].body.v[i].quantity)
                      /\ \A j \in 1..(i - 1) : PositiveInteger(req[r].body.v[j].quantity)
                      /\ req[r].res.message = MsgBadQuantity
                      /\ req[r].res.data.book = req[r].body.v[i].book_id

\* C9: every stored order line has a quantity that is a positive integer.
C9_StoredQuantityPositive ==
    \A i \in 1..Len(orders) :
        \A j \in 1..Len(orders[i].orderItems) :
            LET q == orders[i].orderItems[j].quantity IN
            q.k = "number" /\ NumberIsInteger(q) /\ ~LeqZero(q)

\* C9 witness: a line sent with the string "2" is stored with the number 2.
C9_Witness ==
    \E i \in 1..Len(orders) :
        \E j \in 1..Len(orders[i].orderItems) :
            /\ orders[i].orderItems[j].quantity = JsNum(2)
            /\ req[orders[i].id].body.v[j].quantity = JsStr(<<"2">>)

\* the books the read of the step finds for the request that arrives in slot r
FoundAtValidation(r) ==
    {b \in BookIds : /\ \E i \in 1..Len(req'[r].body.v) : req'[r].body.v[i].book_id = b
                     /\ ~books[b].deletedAt}
\* the distinct book ids of the request that arrives in slot r
DistinctRequested(r) ==
    {req'[r].body.v[i].book_id : i \in 1..Len(req'[r].body.v)}

\* C10: a well-formed request whose read of the books does not fault is
\* answered 404 exactly when the number of active books found differs from
\* the number of distinct book ids it names.
C10_NotFoundIffMissing ==
    [][\A r \in Slots :
          ( /\ Validates(r)
            /\ req'[r].userId # NoUser
            /\ WellFormed(req'[r].body)
            /\ req'[r].res.status # 500 )
          => ( req'[r].res.status = 404
                 <=> Cardinality(FoundAtValidation(r)) # Cardinality(DistinctRequested(r)) )]_vars

\* every line of the request that arrives in slot r names a book that the
\* read of the step finds active
AllRequestedActive(r) ==
    \A i \in 1..Len(req'[r].body.v) :
        /\ req'[r].body.v[i].book_id \in DOMAIN books
        /\ ~books[req'[r].body.v[i].book_id].deletedAt

\* the lines of the request that arrives in slot r that ask more than the
\* read of the step finds in stock
ShortLines(r) ==
    {i \in 1..Len(req'[r].body.v) :
        books[req'[r].body.v[i].book_id].stockQuantity < Asked(req'[r].body, i)}

\* C11: a well-formed request whose books are all active and whose read of
\* the books does not fault is answered 409 exactly when one of its lines
\* asks more than the stock the read found, and the 409 carries the title,
\* the stock found and the quantity asked of the first such line.
C11_ConflictIffShort ==
    [][\A r \in Slots :
          ( /\ Validates(r)
            /\ req'[r].userId # NoUser
            /\ WellFormed(req'[r].body)
            /\ AllRequestedActive(r)
            /\ req'[r].res.status # 500 )
          => /\ req'[r].res.status = 409 <=> ShortLines(r) # {}
             /\ req'[r].res.status = 409 =>
                  \E i \in ShortLines(r) :
                      /\ \A j \in ShortLines(r) : i <= j
                      /\ req'[r].res.data.book = books[req'[r].body.v[i].book_id].title
                      /\ req'[r].res.data.available =
                             books[req'[r].body.v[i].book_id].stockQuantity
                      /\ req'[r].res.data.requested = JsNum(Asked(req'[r].body, i))]_vars

\* C12: the 201 of a request carries the id of the order its transaction
\* created, the sum of the quantities of its lines and the sum over its lines
\* of the price of the book times the quantity; the stock values the
\* validation prepares are, for every book of the request, the stock it read
\* minus the quantity asked, and the commit writes exactly these values.
C12_TotalsAndStockWritten ==
    [][\A r \in Slots :
          /\ (Validates(r) /\ req'[r].pc = "tx") =>
                LET body == req'[r].body IN
                /\ Len(req'[r].stockUpdates) = Len(body.v)
                /\ \A i \in 1..Len(body.v) :
                      req'[r].stockUpdates[i] =
                          <<body.v[i].book_id,
                            books[body.v[i].book_id].stockQuantity - Asked(body, i)>>
          /\ Commits(r) =>
                LET body == req[r].body
                    data == req'[r].res.data
                IN /\ orders' = Append(orders, orders'[Len(orders')])
                   /\ orders'[Len(orders')].id = data.transaction_id
                   /\ data.total_quantity =
                          SumSeq([i \in 1..Len(body.v) |-> Asked(body, i)])
                   /\ data.total_price =
                          SumJs([i \in 1..Len(body.v) |->
                                   JsMul(books[body.v[i].book_id].price,
                                         JsNum(Asked(body, i)))])
                   /\ \A i \in 1..Len(body.v) :
                          books'[body.v[i].book_id].stockQuantity =
                              req[r].stockUpdates[i][2]]_vars

\* C12 witness: a 201 for two lines, one of them sent as the string "2", with
\* total quantity 3 and a total price that counts the quantity of each line:
\* 0.2 + 0.7 as floats add, 0.8999999999999999, which is not the float of 0.9.
C12_Witness ==
    \E r \in Slots :
        /\ Done(r)
        /\ Status(r) = 201
        /\ Len(req[r].body.v) = 2
        /\ \E i \in 1..2 : req[r].body.v[i].quantity = JsStr(<<"2">>)
        /\ req[r].res.data.total_quantity = 3
        /\ req[r].res.data.total_price
              = JsAdd(JsMul(BookPrice["b1"], JsNum(2)), BookPrice["b2"])
        /\ req[r].res.data.total_price # JsRat(9, 10)
        /\ \E i \in 1..Len(orders) : orders[i].id = req[r].res.data.transaction_id

\* the messages of createTransaction that say that the stock is unchanged
AssuresStockUnchanged(message) == message = MsgTxFailed

\* C18: every 500 of createTransaction says that the stock remains
\* unchanged, and the request has left no order and every stock as it was.
C18_FaultAssuresUnchanged ==
    \A r \in Slots :
        (Done(r) /\ Status(r) = 500) =>
            (AssuresStockUnchanged(req[r].res.message) /\ NoEffect(r))

\* the step is the answer, without storage fault, of the transaction query op
Answers(op) == qres' # qres /\ qres'.op = op /\ qres'.status # 500

\* the (book id, quantity) pairs of the lines of an order as a query returns it
PairsOf(order) ==
    [i \in 1..Len(order.orderItems) |->
        <<order.orderItems[i].bookId, IntOf(order.orderItems[i].quantity)>>]

\* C13: getTransactionDetail asked by the user of a 201 with the
\* transaction_id of that 201, after it and with no storage fault, answers
\* 200 with one order whose lines are the (book id, quantity) pairs of the
\* request, one per line and in its order, and whose sums of the quantity
\* and of price times quantity over the lines are the total_quantity and the
\* total_price of the 201.
C13_ReadAfterWrite ==
    [][\A r \in Slots :
          ( /\ Done(r) /\ Status(r) = 201
            /\ Answers("getTransactionDetail")
            /\ qres'.id = req[r].res.data.transaction_id
            /\ qres'.userId = req[r].userId )
          => /\ qres'.status = 200
             /\ Len(qres'.data) = 1
             /\ LET order == qres'.data[1]
                    body == req[r].body
                IN /\ PairsOf(order) =
                         [i \in 1..Len(body.v) |-> <<body.v[i].book_id, Asked(body, i)>>]
                   /\ SumSeq([i \in 1..Len(order.orderItems) |->
                                IntOf(order.orderItems[i].quantity)])
                         = req[r].res.data.total_quantity
                   /\ SumJs([i \in 1..Len(order.orderItems) |->
                               JsMul(order.orderItems[i].book.price,
                                     order.orderItems[i].quantity)])
                         = req[r].res.data.total_price]_vars

\* C13 witness: the detail of a committed two-line order has been returned to
\* its user.
C13_Witness ==
    \E r \in Slots :
        /\ Done(r) /\ Status(r) = 201
        /\ Len(req[r].body.v) = 2
        /\ qres.op = "getTransactionDetail"
        /\ qres.status = 200
        /\ qres.id = req[r].res.data.transaction_id
        /\ qres.userId = req[r].userId
        /\ Len(qres.data[1].orderItems) = 2

\* C14: getTransactionDetail that meets no storage fault answers 200, with
\* the order asked, exactly when an order of that id exists and is owned by
\* the caller; otherwise it answers 404 with one and the same response,
\* whether the order is owned by another user or does not exist.
C14_OwnershipIsolation ==
    [][Answers("getTransactionDetail") =>
          IF \E i \in 1..Len(orders) :
                orders[i].id = qres'.id /\ orders[i].userId = qres'.userId
          THEN /\ qres'.status = 200
               /\ Len(qres'.data) = 1
               /\ qres'.data[1].id = qres'.id
               /\ qres'.data[1].userId = qres'.userId
          ELSE <<qres'.status, qres'.message, qres'.data>>
                   = <<404, MsgNoTransaction, <<>>>>]_vars

\* C14 witness: a user has asked for the committed order of the other user
\* and got 404.
C14_Witness ==
    /\ qres.op = "getTransactionDetail"
    /\ qres.status = 404
    /\ \E i \in 1..Len(orders) :
          /\ orders[i].id = qres.id
          /\ orders[i].userId # qres.userId
          /\ qres.userId \in Users

\* C15: getAllTransactions that meets no storage fault returns the committed
\* orders the caller owns, each once and with its lines, the later created
\* before the earlier, and changes nothing in the store.
C15_OwnHistoryNewestFirst ==
    [][Answers("getAllTransactions") =>
          LET owned == {i \in 1..Len(orders) : orders[i].userId = qres'.userId}
              data == qres'.data
          IN /\ qres'.status = 200
             /\ Len(data) = Cardinality(owned)
             /\ \A i \in owned : \E k \in 1..Len(data) :
                   /\ data[k].id = orders[i].id
                   /\ data[k].userId = qres'.userId
                   /\ PairsOf(data[k]) = PairsOf(orders[i])
             /\ \A k \in 1..Len(data), l \in 1..Len(data) :
                   k < l => data[k].createdAt > data[l].createdAt
             /\ UNCHANGED <<books, orders, genres>>]_vars

\* C15 witness: a history of two orders has been returned in which the order
\* committed first, which was created last, comes first.
C15_Witness ==
    /\ qres.op = "getAllTransactions"
    /\ qres.status = 200
    /\ Len(qres.data) = 2
    /\ Len(orders) = 2
    /\ qres.data[1].id = orders[1].id
    /\ qres.data[1].createdAt > qres.data[2].createdAt

\* the step is the 200 of getTransactionStatistics
StatsAnswers == stats.pc = "counted" /\ stats'.pc = "done" /\ stats'.status = 200

\* the lines of the rows p[1], p[2], ... of the order table
RECURSIVE LinesIn(_)
LinesIn(p) ==
    IF p = <<>> THEN <<>> ELSE orders[p[1]].orderItems \o LinesIn(Tail(p))

\* the sum over every line of these rows, one row after the other, of the
\* price of the book times the quantity
RevenueOf(p) ==
    LET lines == LinesIn(p) IN
    SumJs([j \in 1..Len(lines) |->
             JsMul(books[lines[j].bookId].price, lines[j].quantity)])

\* the average the response reports is revenue/count of the orders in the
\* first k rows of the order table, taken in some order, for some k
AverageOfSomeState(data) ==
    \E k \in 0..Len(orders) :
        /\ data.total_transactions = k
        /\ IF k = 0
           THEN data.average_transaction_amount = JsNum(0)
           ELSE \E p \in Orderings(1..k) :
                   data.average_transaction_amount = JsDiv(RevenueOf(p), JsNum(k))

\* C16 as stated: the 200 of getTransactionStatistics reports as
\* total_transactions the number of the orders of all users and as
\* average_transaction_amount the sum over every line of every order of
\* price times quantity divided by total_transactions, 0 when there is no
\* order; the orders are those of the order table at one moment, the sum
\* taken over them in some order.
C16_CountAndAverage ==
    [][StatsAnswers => AverageOfSomeState(stats'.data)]_vars

\* the name of the genre of the book of a line, "Unknown Genre" for a book
\* without genre
LineGenre(line) ==
    IF books[line.bookId].genreId \in DOMAIN genres
    THEN genres[books[line.bookId].genreId].name
    ELSE "Unknown Genre"

\* the genres with a line among the lines, and the quantity sold of each
SoldGenres(lines) == {LineGenre(lines[i]) : i \in 1..Len(lines)}
GenreSum(lines, g) ==
    SumSeq([i \in 1..Len(lines) |->
              IF LineGenre(lines[i]) = g THEN IntOf(lines[i].quantity) ELSE 0])
Highest(lines) ==
    {g \in SoldGenres(lines) :
        \A h \in SoldGenres(lines) : GenreSum(lines, h) <= GenreSum(lines, g)}
Lowest(lines) ==
    {g \in SoldGenres(lines) :
        \A h \in SoldGenres(lines) : GenreSum(lines, g) <= GenreSum(lines, h)}

\* the place of the first line of genre g, and the genre of a set met first
\* in the aggregation
FirstSeen(lines, g) ==
    CHOOSE i \in 1..Len(lines) :
        LineGenre(lines[i]) = g /\ \A j \in 1..(i - 1) : LineGenre(lines[j]) # g
MetFirst(lines, G) ==
    CHOOSE g \in G : \A h \in G : FirstSeen(lines, g) <= FirstSeen(lines, h)
\* C17 as stated: both genre fields are null when no line is sold;
\* otherwise most_book_sales_genre is, of the genres with the highest sum of
\* quantities, the one met first in the aggregation, and
\* fewest_book_sales_genre is, of the sold genres with the lowest sum, the
\* one met first in the aggregation.
C17_TiesFirstEncountered ==
    [][StatsAnswers =>
          LET lines == Flatten(stats'.allOrders) IN
          IF lines = <<>>
          THEN /\ stats'.data.most_book_sales_genre = <<>>
               /\ stats'.data.fewest_book_sales_genre = <<>>
          ELSE /\ stats'.data.most_book_sales_genre = <<MetFirst(lines, Highest(lines))>>
               /\ stats'.data.fewest_book_sales_genre = <<MetFirst(lines, Lowest(lines))>>]_vars

\* C19 as stated: the stockQuantity of an existing book changes only in the
\* commit of the transaction of a createTransaction.
C19_ExclusiveStockWriter ==
    [][\A b \in DOMAIN books :
          books'[b].stockQuantity # books[b].stockQuantity
              => \E r \in Slots : Commits(r)]_vars

\* C19 amended: the stockQuantity of an existing book changes only in the
\* commit of the transaction of a createTransaction and in an updateBook of
\* that book; no other operation changes it.
C19_StockWriters ==
    [][\A b \in DOMAIN books :
          books'[b].stockQuantity # books[b].stockQuantity
              => \/ \E r \in Slots : Commits(r)
                 \/ \E patch \in BookPatches : UpdateBook(b, patch)]_vars

\* C19 witness: one copy of a book was sold from a stock of more than one,
\* and an updateBook has set the stock of the book to 0.
C19_Witness ==
    \E b \in BookIds :
        /\ Sold(b) = 1
        /\ stock0[b] > 1
        /\ books[b].stockQuantity = 0

\* C20: the order table changes only in the commit of the transaction of a
\* createTransaction, which adds one order with a new id, the id the 201
\* carries, owned by the user of the request and with one line for every
\* line of the request; every order committed before stays as it is.
C20_OrdersOnlyGrow ==
    [][/\ Len(orders') >= Len(orders)
       /\ \A i \in 1..Len(orders) : orders'[i] = orders[i]
       /\ Len(orders') > Len(orders) => \E r \in Slots : Commits(r)
       /\ \A r \in Slots :
             Commits(r) =>
                /\ Len(orders') = Len(orders) + 1
                /\ LET new == orders'[Len(orders')] IN
                   /\ new.id = req'[r].res.data.transaction_id
                   /\ \A i \in 1..Len(orders) : orders[i].id # new.id
                   /\ new.userId = req[r].userId
                   /\ Len(new.orderItems) = Len(req[r].body.v)
                   /\ Len(new.orderItems) >= 1]_vars

\* C20 witness: two orders of different users are committed in a run in
\* which a book was created, the book of the orders was deleted and a genre
\* was deleted.
C20_Witness ==
    /\ Len(orders) = 2
    /\ orders[1].userId # orders[2].userId
    /\ "b3" \in DOMAIN books
    /\ books["b1"].deletedAt
    /\ gen[1].op = "deleteGenre" /\ gen[1].status = 200

\* the body is a non-empty array of lines
HasItems(body) == body.k = "array" /\ Len(body.v) >= 1

\* C22: the checks of createTransaction come in a fixed order.  A request
\* without user id is answered 401 without any storage call; with a user id
\* and without a non-empty items array it is answered 400 for the items;
\* with items and a bad quantity it is answered 400 for the quantity; when
\* well formed and naming a book that is unknown or inactive it is answered
\* 404, also when a line is short of stock; a 409 is given only to a
\* well-formed request whose books are all active; and the transaction is
\* opened only when, besides, no line is short of stock.  The storage fault
\* of the read of the books is set apart.
C22_OrderOfChecks ==
    [][\A r \in Slots :
          Validates(r) =>
             LET userId == req'[r].userId
                 body == req'[r].body
                 res == req'[r].res
             IN /\ userId = NoUser =>
                      /\ res.status = 401
                      /\ req'[r].storageCalls = 0
                /\ (userId # NoUser /\ ~HasItems(body)) =>
                      /\ res.status = 400 /\ res.message = MsgItemsRequired
                      /\ req'[r].storageCalls = 0
                /\ (userId # NoUser /\ HasItems(body) /\ ~WellFormed(body)) =>
                      /\ res.status = 400 /\ res.message = MsgBadQuantity
                      /\ req'[r].storageCalls = 0
                /\ ( /\ userId # NoUser /\ WellFormed(body)
                     /\ ~AllRequestedActive(r) /\ res.status # 500 ) =>
                      res.status = 404
                /\ res.status = 409 =>
                      /\ userId # NoUser /\ WellFormed(body)
                      /\ AllRequestedActive(r)
                /\ req'[r].pc = "tx" =>
                      /\ userId # NoUser /\ WellFormed(body)
                      /\ AllRequestedActive(r)
                      /\ ShortLines(r) = {}
                      /\ req'[r].tx.begun]_vars

\* the order of request r is in the order table
OrderVisible(r) == \E i \in 1..Len(orders) : orders[i].id = r

\* C21: every request that has arrived is eventually answered; a request
\* answers once and what it has answered stays; a request whose
\* transaction is open is eventually answered 201 or 500, whether its
\* caller has closed the connection or not; the order of a request and its
\* stock writes become visible in one step, the commit that answers 201, and
\* no other step of a createTransaction changes the order table or a stock.
C21_ResolvesWholly ==
    /\ [][\A r \in Slots :
             /\ Done(r) => req'[r] = req[r]
             /\ req'[r].storageCalls >= req[r].storageCalls
             /\ (OrderVisible(r)' /\ ~OrderVisible(r)) <=> Commits(r)
             /\ Commits(r) =>
                   \A i \in 1..Len(req[r].stockUpdates) :
                       books'[req[r].stockUpdates[i][1]].stockQuantity
                           = req[r].stockUpdates[i][2]
             /\ (orders' # orders \/ books' # books) => \E q \in Slots : Commits(q)]_vars
    /\ \A r \in Slots :
          (req[r].pc = "tx") ~> (Done(r) /\ Status(r) \in {201, 500})
    /\ \A r \in Slots : (req[r].pc # "idle") ~> Done(r)

\* the books the lines of the request in slot r name
NamedBooks(r) == {req[r].body.v[i].book_id : i \in 1..Len(req[r].body.v)}

\* the two requests of a pair are answered, none met a storage fault, no
\* book was deleted, they name different books and each asks no more than
\* the stock of its books before the first request
DisjointPairAnswered(r, q) ==
    /\ r # q /\ Done(r) /\ Done(q)
    /\ Status(r) # 500 /\ Status(q) # 500
    /\ \A b \in BookIds : ~books[b].deletedAt
    /\ NamedBooks(r) \cap NamedBooks(q) = {}
    /\ \A s \in {r, q} : \A i \in 1..Len(req[s].body.v) :
          /\ req[s].body.v[i].book_id \in BookIds
          /\ Asked(req[s].body, i) <= stock0[req[s].body.v[i].book_id]

\* two answered orders on different books have both succeeded, and the
\* stock of every book is what it was less what the orders asked of it
DisjointOrdersCommute ==
    \A r \in Slots, q \in Slots :
        (DisjointPairAnswered(r, q) /\ Slots = {r, q}) =>
            /\ Status(r) = 201 /\ Status(q) = 201
            /\ \A b \in BookIds : books[b].stockQuantity = stock0[b] - Sold(b)
            /\ \A b \in BookIds : Sold(b) = IF b \in NamedBooks(r) \cup NamedBooks(q)
                                            THEN OrderedOf(orders[1], b) + OrderedOf(orders[2], b)
                                            ELSE 0

\* C23: the commit of an order changes the stock of every book its lines
\* name and of no other book, and no price, title, genre or deletedAt; and
\* two orders on different books both succeed when each would alone, with
\* one final state for every interleaving.
C23_FrameOfCommit ==
    /\ [][\A r \in Slots :
             Commits(r) =>
                /\ {b \in DOMAIN books : books'[b].stockQuantity # books[b].stockQuantity}
                      = NamedBooks(r)
                /\ DOMAIN books' = DOMAIN books
                /\ \A b \in DOMAIN books :
                      books'[b] = [books[b] EXCEPT !.stockQuantity = books'[b].stockQuantity]]_vars
    /\ []DisjointOrdersCommute

\* C24: in every 200 of getTransactionStatistics the count and the sums are
\* of the same orders: total_transactions is the number of the orders the
\* sums were made over, and the average is revenue/count of one committed
\* state of the order table.
C24_StatisticsOfOneState ==
    [][StatsAnswers =>
          /\ stats'.data.total_transactions = Len(stats'.allOrders)
          /\ AverageOfSomeState(stats'.data)]_vars

\* the step is the answer of the genre request in slot a after its write
GenreWrites(a) == gen[a].pc = "write" /\ gen'[a].pc = "done"

\* the books, deleted ones too, that reference genre g
BooksOfGenre(g) == {b \in DOMAIN books : books[b].genreId = g}

\* C25: after any interleaving of deleteGenre, createBook and updateBook no
\* book references a soft-deleted genre: a deleteGenre that writes while a
\* book references the genre answers 409 and leaves the genre as it is, and
\* no book is created with or moved to a soft-deleted genre.
C25_NoBookOfDeletedGenre ==
    /\ [][\A a \in GenreSlots :
             (GenreWrites(a) /\ gen[a].op = "deleteGenre"
                 /\ BooksOfGenre(gen[a].id) # {})
                => gen'[a].status = 409 /\ genres' = genres]_vars
    /\ [](\A b \in DOMAIN books : ~genres[books[b].genreId].deletedAt)

\* C26: no two active genres have the same name: a createGenre or
\* updateGenre that writes while another active genre has the name answers
\* 409 and changes nothing, also when two of them run concurrently.
C26_ActiveNamesDistinct ==
    /\ [][\A a \in GenreSlots :
             (GenreWrites(a) /\ gen[a].op \in {"createGenre", "updateGenre"}
                 /\ ActiveGenreNamed(gen[a].name) \ {gen[a].id} # {})
                => gen'[a].status = 409 /\ genres' = genres]_vars
    /\ [](\A g, h \in DOMAIN genres :
             (g # h /\ ~genres[g].deletedAt /\ ~genres[h].deletedAt)
                => genres[g].name # genres[h].name)

====
